---- MODULE Spec2Model ----
(***************************************************************************)
(* Verification model of two codecs of the raster access layer:            *)
(*   - the embedded-XMP locator of the GIF driver (GIFCollectXMPMetadata), *)
(*     its caller GIFAbstractDataset::GetMetadata, and the constructor of  *)
(*     GIFAbstractRasterBand (interlace map, transparency, colour table),  *)
(*   - the FARSITE landscape (LCP) driver: Identify/Open/GetGeoTransform,  *)
(*     ClassifyBandData and CreateCopy.                                    *)
(* Each part has its own specification (SpecScan, SpecMetadata, SpecBand,  *)
(* SpecClassify, SpecOpen, SpecCreateCopy); the variables of the other     *)
(* parts stay unchanged under it.                                          *)
(***************************************************************************)
EXTENDS Integers, Sequences, FiniteSets, TLC

VARIABLES
    \* ---- GIFCollectXMPMetadata ----
    stream,              \* the bytes of the file behind fp
    scanKind,            \* how the stream was built (ghost, read by the properties)
    scanBody,            \* the packet body embedded in the stream (ghost)
    startOffset,         \* position of fp when the scanner is called (ghost)
    fpOffset,            \* current position of fp
    scanPc,              \* position in GIFCollectXMPMetadata
    nCurOffset,          \* saved position
    abyBuffer,           \* char abyBuffer[2048 + 1]
    iStartSearchOffset,
    nRead,
    pszXMP,              \* the payload buffer, its first nSize bytes
    nSize,
    nLen,
    osXMP,               \* the packet returned
    allocFailed,         \* VSIMalloc/VSIRealloc returned nullptr (ghost)
    \* ---- LCPDataset::ClassifyBandData ----
    clsBand,             \* the band: a sequence of rows of GInt16 pixels
    clsPc,               \* position in ClassifyBandData
    iLine,
    pabyFlags,           \* the indices j with pabyFlags[j] == 1
    nFound,
    bTooMany,
    eErr,                \* result of the last RasterIO
    panWrites,           \* the stores into panClasses, in order
    nNumClasses          \* the count handed back

scanVars == <<stream, scanKind, scanBody, startOffset, fpOffset, scanPc,
              nCurOffset, abyBuffer, iStartSearchOffset, nRead, pszXMP, nSize,
              nLen, osXMP, allocFailed>>

clsVars == <<clsBand, clsPc, iLine, pabyFlags, nFound, bTooMany, eErr,
             panWrites, nNumClasses>>

\* LCPDataset::Open
VARIABLES
    lcpFile,        \* the file: its length and what was written where
    openInfo,       \* GDALOpenInfo: osExtension, fpL (non-null or not), eAccess
    openPc,         \* where Open stands
    poDS            \* the dataset Open builds; NullDS when it returns nullptr

openVars == <<lcpFile, openInfo, openPc, poDS>>

\* LCPDataset::CreateCopy
VARIABLES
    call,           \* the call: source dataset, options, bStrict, collaborators
    ccPc,           \* where CreateCopy stands
    ccLocals,       \* what the checks of the input left: panMetadata, ...
    fpPos,          \* position of the handle on the file being written
    fpOpen,         \* whether that handle is open
    ccTells,        \* VSIFTellL at the three CPLAsserts of the header
    ccLine,         \* iLine of the copy loop
    ccProgress,     \* the calls of pfnProgress: <<numerator, denominator>>
    panScanline     \* the buffer of one line: "null", "live" or "freed"

ccVars == <<call, ccPc, ccLocals, fpPos, fpOpen, ccTells, ccLine, ccProgress,
            panScanline>>

\* GIFAbstractRasterBand::GIFAbstractRasterBand
VARIABLES
    psImage,            \* the saved image and what the constructor is given
    bandPc,             \* where the constructor stands
    iPass,              \* i of the loop over the four passes
    iMapLine,           \* iLine of the constructor
    panInterlaceMap,    \* the map, entry j at j + 1; <<>> for nullptr
    mapStores,          \* the rows stored into, in order (ghost)
    iExtBlock,
    nTransparentColor,
    poColorTable,       \* the entries set, entry iColor at iColor + 1
    bandMetadata        \* the metadata items set: <<name, value, domain>>

bandVars == <<psImage, bandPc, iPass, iMapLine, panInterlaceMap, mapStores,
              iExtBlock, nTransparentColor, poColorTable, bandMetadata>>

\* GIFAbstractDataset: GetMetadata and CollectXMPMetadata
VARIABLES
    gifFp,               \* fp of the dataset is not nullptr
    eAccess,
    bHasReadXMPMetadata,
    oMDMD,               \* the metadata list kept for the domain xml:XMP
    mdPc,                \* where GetMetadata stands
    mdRequests,          \* the domains asked for so far (ghost)
    mdAnswers,           \* what each request was answered (ghost)
    nScans,              \* calls of GIFCollectXMPMetadata so far (ghost)
    nPamFlags            \* the flags of GDALPamDataset that are set

mdVars == <<gifFp, eAccess, bHasReadXMPMetadata, oMDMD, mdPc, mdRequests,
            mdAnswers, nScans, nPamFlags>>

vars == <<scanVars, clsVars, openVars, ccVars, bandVars, mdVars>>

(***************************************************************************)
(* Generic helpers                                                         *)
(***************************************************************************)
Min(a, b) == IF a < b THEN a ELSE b

\* n copies of byte b
Rep(b, n) == [i \in 1..n |-> b] @@ <<>>

(***************************************************************************)
(* GIFCollectXMPMetadata: constants                                        *)
(***************************************************************************)
\* bytes read per VSIFReadL call, and size of the lookback window
ChunkSize == 1024
\* length of the application-extension signature
SigLen == 14
\* distance of the first trailer byte from the end of the payload
TrailerLen == 256

\* "\x21\xff\x0bXMP DataXMP"
XMPSignature == <<33, 255, 11, 88, 77, 80, 32, 68, 97, 116, 97, 88, 77, 80>>

(***************************************************************************)
(* Streams the scanner is run on.  A stream is a sequence of segments      *)
(* [k |-> kind, n |-> length]; its bytes are computed by ByteAt.  Buffers  *)
(* that hold copies of file bytes are kept as the file extents they were   *)
(* filled from, [at |-> file offset, n |-> length].                        *)
(***************************************************************************)
\* largest offset at which a signature is placed
MaxSigOffset == 1040
\* largest packet body embedded
MaxBodyLen == 2
\* the caller's read position is a multiple of StartStride up to this factor
MaxStartFactor == 1
StartStride == 700

\* the bytes that end an XMP packet in a GIF: 0x01, 0xff, 0xfe, ..., 0x01, 0, 0
MagicTrailer == <<1>> \o [i \in 1..255 |-> 256 - i] \o <<0, 0>>

GifTail == <<33, 59, 59>>

\* byte j (from 0) of a segment of kind k
SegByte(k, j) ==
    CASE k = "fill" -> IF j % 5 = 3 THEN 33 ELSE IF j % 5 = 4 THEN 255
                       ELSE IF j % 5 = 0 THEN 0 ELSE 71
      [] k = "sig" -> XMPSignature[j + 1]
      [] k = "trailer" -> MagicTrailer[j + 1]
      [] k = "body" -> 120 + (j % 8)
      [] k = "nul" -> 0
      [] OTHER -> GifTail[(j % 3) + 1]

Seg(k, n) == [k |-> k, n |-> n]

RECURSIVE StreamLenFrom(_, _)
StreamLenFrom(s, i) == IF i > Len(s) THEN 0 ELSE s[i].n + StreamLenFrom(s, i + 1)
StreamLen(s) == StreamLenFrom(s, 1)

\* byte at file offset pos (from 0) of stream s
RECURSIVE ByteFrom(_, _, _)
ByteFrom(s, i, pos) ==
    IF pos < s[i].n THEN SegByte(s[i].k, pos) ELSE ByteFrom(s, i + 1, pos - s[i].n)
ByteAt(s, pos) == ByteFrom(s, 1, pos)

\* a signature at offset off followed by a well-formed payload
PacketStream(off, n) ==
    <<Seg("fill", off), Seg("sig", SigLen), Seg("body", n),
      Seg("trailer", TrailerLen + 2), Seg("tail", 3)>>

\* a signature whose payload ends in a NUL without the trailer
NoTrailerStream(off, n) ==
    <<Seg("fill", off), Seg("sig", SigLen), Seg("body", n), Seg("nul", 1),
      Seg("tail", 3)>>

\* a signature followed by the trailer pattern alone (256 bytes before the NUL)
ShortStream(off) ==
    <<Seg("fill", off), Seg("sig", SigLen), Seg("trailer", TrailerLen + 2),
      Seg("tail", 3)>>

\* no signature at all
PlainStream(off) == <<Seg("fill", off)>>

\* a well-formed payload that holds the trailer pattern once before its end
DecoyStream(off, n) ==
    <<Seg("fill", off), Seg("sig", SigLen), Seg("body", n),
      Seg("trailer", TrailerLen), Seg("body", 3),
      Seg("trailer", TrailerLen + 2), Seg("tail", 3)>>

\* a payload that ends with the trailer pattern and with the stream
EndedStream(off, n) ==
    <<Seg("fill", off), Seg("sig", SigLen), Seg("body", n),
      Seg("trailer", TrailerLen)>>

\* a signature followed by the trailer pattern alone, and after it a
\* signature followed by a well-formed payload
ShortFirstStream(off, n) ==
    <<Seg("fill", off), Seg("sig", SigLen), Seg("trailer", TrailerLen + 2),
      Seg("fill", 5), Seg("sig", SigLen), Seg("body", n),
      Seg("trailer", TrailerLen + 2), Seg("tail", 3)>>

\* a signature whose payload ends in a NUL without the trailer, and after it
\* a signature followed by a well-formed payload
UnendedFirstStream(off, n) ==
    <<Seg("fill", off), Seg("sig", SigLen), Seg("body", 3), Seg("nul", 1),
      Seg("fill", 5), Seg("sig", SigLen), Seg("body", n),
      Seg("trailer", TrailerLen + 2), Seg("tail", 3)>>

\* the offsets of the first signature of a stream that holds two
TwoPacketOffsets == {0, ChunkSize - 20}

\* where a signature lies whose payload of body and trailer pattern ends
\* with the second chunk
DecoyOffset(n) == 2 * ChunkSize - TrailerLen - n - SigLen

\* the offsets around the second chunk boundary
EdgeOffsets == (2 * ChunkSize - 16)..(2 * ChunkSize + 2)

ScanInputs ==
    {[kind |-> "packet", off |-> o, n |-> 1 + (o % MaxBodyLen)] :
        o \in (0..MaxSigOffset) \cup EdgeOffsets}
    \cup [kind : {"notrailer", "short", "none"}, off : EdgeOffsets, n : {1}]
    \cup [kind : {"notrailer"}, off : {2 * ChunkSize - SigLen}, n : {TrailerLen + 44}]
    \cup [kind : {"decoy"}, off : {DecoyOffset(1) - 1, DecoyOffset(1)}, n : {1}]
    \cup [kind : {"ended"}, off : {DecoyOffset(1), 2 * ChunkSize - SigLen}, n : {1}]
    \cup [kind : {"shortfirst", "unendedfirst"}, off : TwoPacketOffsets, n : {2}]

StreamOf(in) ==
    CASE in.kind = "packet" -> PacketStream(in.off, in.n)
      [] in.kind = "notrailer" -> NoTrailerStream(in.off, in.n)
      [] in.kind = "short" -> ShortStream(in.off)
      [] in.kind = "decoy" -> DecoyStream(in.off, in.n)
      [] in.kind = "ended" -> EndedStream(in.off, in.n)
      [] in.kind = "shortfirst" -> ShortFirstStream(in.off, in.n)
      [] in.kind = "unendedfirst" -> UnendedFirstStream(in.off, in.n)
      [] OTHER -> PlainStream(in.off)

\* the packet body of a stream built by PacketStream
BodyOf(n) == [j \in 1..n |-> SegByte("body", j - 1)]

(***************************************************************************)
(* GIFCollectXMPMetadata                                                   *)
(***************************************************************************)
\* VSIFReadL(dst, 1, n, fp): the number of bytes delivered at position pos
ReadCount(s, pos, n) ==
    IF pos >= StreamLen(s) THEN 0 ELSE Min(n, StreamLen(s) - pos)

\* an array element nothing was stored in
Uninit == -1

Extent(at, n) == [at |-> at, n |-> n]

\* abyBuffer[i], i counted from 0 as in the source: the lookback window is
\* abyBuffer[0..1023], the chunk read last abyBuffer[1024..1024+nRead-1],
\* followed by the NUL stored at abyBuffer[1024 + nRead]
BufAt(s, buf, i) ==
    IF i < ChunkSize
    THEN IF i < buf.lo.n THEN ByteAt(s, buf.lo.at + i) ELSE Uninit
    ELSE IF i - ChunkSize < buf.hi.n THEN ByteAt(s, buf.hi.at + i - ChunkSize)
    ELSE IF i - ChunkSize = buf.hi.n THEN 0
    ELSE Uninit

\* memcmp(abyBuffer + i, "\x21\xff\x0bXMP DataXMP", 14) == 0
SigAt(s, buf, i) ==
    /\ BufAt(s, buf, i) = XMPSignature[1]
    /\ \A k \in 2..SigLen : BufAt(s, buf, i + k - 1) = XMPSignature[k]

\* the bound of the search loop: i < 1024 + nRead - 14
SearchEnd(n) == ChunkSize + n - SigLen

\* the search loop: iFoundOffset, or -1
FindSignature(s, buf, from, n) ==
    LET hits == {i \in from..(SearchEnd(n) - 1) : SigAt(s, buf, i)}
    IN  IF hits = {} THEN -1
        ELSE (CHOOSE i \in hits : \A j \in hits : i <= j) + SigLen

\* VSIFReadL(abyBuffer + 1024, 1, 1024, fp); abyBuffer[1024 + nRead] = 0
LoadChunk(buf, at, n) == [buf EXCEPT !.hi = Extent(at, n)]

\* the lookback window left as it was
KeepLookbackStale(buf) == buf

\* memcpy(abyBuffer, abyBuffer + 1024, 1024)
KeepLookback(buf) == [buf EXCEPT !.lo = buf.hi]

\* memcpy(pszXMP, abyBuffer + iFoundOffset, nSize): the extents copied
CopyFrom(buf, iFoundOffset) ==
    IF iFoundOffset >= ChunkSize
    THEN <<Extent(buf.hi.at + iFoundOffset - ChunkSize,
                  buf.hi.n - (iFoundOffset - ChunkSize))>>
    ELSE <<Extent(buf.lo.at + iFoundOffset, ChunkSize - iFoundOffset), buf.hi>>

\* pszXMP[i], i counted from 0, of a payload made of extents p
RECURSIVE PayloadFrom(_, _, _, _)
PayloadFrom(s, p, e, i) ==
    IF e > Len(p) THEN 0
    ELSE IF i < p[e].n THEN ByteAt(s, p[e].at + i)
    ELSE PayloadFrom(s, p, e + 1, i - p[e].n)
PayloadAt(s, p, i) == PayloadFrom(s, p, 1, i)

\* strlen(pszXMP + from) in a payload of size bytes, NUL-terminated at size
StrLen(s, p, from, size) ==
    LET nuls == {i \in from..(size - 1) : PayloadAt(s, p, i) = 0}
    IN  IF nuls = {} THEN size - from
        ELSE (CHOOSE i \in nuls : \A j \in nuls : i <= j) - from

\* the test that the payload ends with the trailer
HasTrailer(s, p, len) ==
    /\ len > TrailerLen
    /\ PayloadAt(s, p, len - 1) = 1
    /\ PayloadAt(s, p, len - 2) = 2
    /\ PayloadAt(s, p, len - 255) = 255
    /\ PayloadAt(s, p, len - 256) = 1

\* the packet cut one byte after the start of the trailer
ExciseLate(s, p, len) == [i \in 1..(len - TrailerLen + 1) |-> PayloadAt(s, p, i - 1)]

\* pszXMP[nLen - 256] = 0; osXMP = pszXMP
Excise(s, p, len) == [i \in 1..(len - TrailerLen) |-> PayloadAt(s, p, i - 1)]

ScanIdle ==
    /\ stream = <<>>
    /\ scanKind = "none"
    /\ scanBody = <<>>
    /\ startOffset = 0
    /\ fpOffset = 0
    /\ scanPc = "idle"
    /\ nCurOffset = 0
    /\ abyBuffer = [lo |-> Extent(0, 0), hi |-> Extent(0, 0)]
    /\ iStartSearchOffset = 0
    /\ nRead = 0
    /\ pszXMP = <<>>
    /\ nSize = 0
    /\ nLen = 0
    /\ osXMP = <<>>
    /\ allocFailed = FALSE

InitScan ==
    /\ \E in \in ScanInputs :
          /\ stream = StreamOf(in)
          /\ scanKind = in.kind
          /\ scanBody = BodyOf(in.n)
    /\ startOffset \in {k * StartStride : k \in 0..MaxStartFactor}
    /\ fpOffset = startOffset
    /\ scanPc = "begin"
    /\ nCurOffset = 0
    /\ abyBuffer = [lo |-> Extent(0, 0), hi |-> Extent(0, 0)]
    /\ iStartSearchOffset = 0
    /\ nRead = 0
    /\ pszXMP = <<>>
    /\ nSize = 0
    /\ nLen = 0
    /\ osXMP = <<>>
    /\ allocFailed = FALSE

\* nCurOffset = VSIFTellL(fp); VSIFSeekL(fp, 0, SEEK_SET); iStartSearchOffset = 1024
ScanBegin ==
    /\ scanPc = "begin"
    /\ nCurOffset' = fpOffset
    /\ fpOffset' = 0
    /\ iStartSearchOffset' = ChunkSize
    /\ scanPc' = "read"
    /\ UNCHANGED <<stream, scanKind, scanBody, startOffset, abyBuffer, nRead,
                   pszXMP, nSize, nLen, osXMP, allocFailed>>

\* one turn of the loop over the file, up to the loop that collects the payload
ScanReadChunk ==
    /\ scanPc = "read"
    /\ LET n == ReadCount(stream, fpOffset, ChunkSize)
           buf == LoadChunk(abyBuffer, fpOffset, n)
       IN  /\ fpOffset' = fpOffset + n
           /\ nRead' = n
           /\ IF n <= 0
              THEN /\ scanPc' = "restore"
                   /\ UNCHANGED <<abyBuffer, iStartSearchOffset, pszXMP, nSize,
                                  nLen, allocFailed>>
              ELSE LET iFoundOffset ==
                           FindSignature(stream, buf, iStartSearchOffset, n)
                   IN
                   /\ iStartSearchOffset' = 0
                   /\ IF iFoundOffset >= 0
                      THEN /\ abyBuffer' = buf
                           /\ \/ /\ allocFailed' = TRUE
                                 /\ scanPc' = "restore"
                                 /\ UNCHANGED <<pszXMP, nSize, nLen>>
                              \/ LET size == ChunkSize + n - iFoundOffset
                                     copied == CopyFrom(buf, iFoundOffset)
                                 IN  /\ pszXMP' = copied
                                     /\ nSize' = size
                                     /\ nLen' = StrLen(stream, copied, 0, size)
                                     /\ scanPc' = "grow"
                                     /\ UNCHANGED allocFailed
                      ELSE /\ IF n # ChunkSize
                              THEN /\ scanPc' = "restore"
                                   /\ abyBuffer' = buf
                              ELSE /\ scanPc' = "read"
                                   /\ abyBuffer' = KeepLookback(buf)
                           /\ UNCHANGED <<pszXMP, nSize, nLen, allocFailed>>
    /\ UNCHANGED <<stream, scanKind, scanBody, startOffset, nCurOffset, osXMP>>

\* one turn of "while (nLen == nSize)"
ScanGrow ==
    /\ scanPc = "grow"
    /\ nLen = nSize
    /\ \/ /\ allocFailed' = TRUE
          /\ scanPc' = "trailer"
          /\ UNCHANGED <<fpOffset, nRead, pszXMP, nSize, nLen>>
       \/ LET n == ReadCount(stream, fpOffset, ChunkSize)
              grown == Append(pszXMP, Extent(fpOffset, n))
          IN  /\ fpOffset' = fpOffset + n
              /\ nRead' = n
              /\ IF n <= 0
                 THEN /\ scanPc' = "trailer"
                      /\ UNCHANGED <<pszXMP, nSize, nLen>>
                 ELSE /\ pszXMP' = grown
                      /\ nLen' = nLen + StrLen(stream, grown, nSize, nSize + n)
                      /\ nSize' = nSize + n
                      /\ scanPc' = "grow"
              /\ UNCHANGED allocFailed
    /\ UNCHANGED <<stream, scanKind, scanBody, startOffset, nCurOffset,
                   abyBuffer, iStartSearchOffset, osXMP>>

\* the trailer test, pszXMP[nLen - 256] = 0, osXMP = pszXMP, VSIFree, break
ScanCheckTrailer ==
    /\ \/ scanPc = "trailer"
       \/ scanPc = "grow" /\ nLen # nSize
    /\ osXMP' = IF HasTrailer(stream, pszXMP, nLen)
                THEN Excise(stream, pszXMP, nLen)
                ELSE osXMP
    /\ scanPc' = "restore"
    /\ UNCHANGED <<stream, scanKind, scanBody, startOffset, fpOffset,
                   nCurOffset, abyBuffer, iStartSearchOffset, nRead, pszXMP,
                   nSize, nLen, allocFailed>>

\* return osXMP with fp left where the scan ended
ScanReturnNoSeek ==
    /\ scanPc = "restore"
    /\ scanPc' = "done"
    /\ UNCHANGED <<stream, scanKind, scanBody, startOffset, fpOffset, nCurOffset,
                   abyBuffer, iStartSearchOffset, nRead, pszXMP, nSize, nLen,
                   osXMP, allocFailed>>

\* VSIFSeekL(fp, nCurOffset, SEEK_SET); return osXMP
ScanReturn ==
    /\ scanPc = "restore"
    /\ fpOffset' = nCurOffset
    /\ scanPc' = "done"
    /\ UNCHANGED <<stream, scanKind, scanBody, startOffset, nCurOffset,
                   abyBuffer, iStartSearchOffset, nRead, pszXMP, nSize, nLen,
                   osXMP, allocFailed>>


(***************************************************************************)
(* LCPDataset::ClassifyBandData                                            *)
(***************************************************************************)
LCP_MAX_CLASSES == 100
\* the pixel value that is skipped
NoData == -9999
\* std::numeric_limits<GInt16>::min() and max()
MIN_VAL == -32768
MAX_VAL == 32767
RANGE_VAL == MAX_VAL - MIN_VAL + 1
\* so that values in [-32768,32767] are mapped to [0,65535] in pabyFlags
OFFSET == -MIN_VAL

ClsState(flags, found, tooMany) ==
    [flags |-> flags, nFound |-> found, bTooMany |-> tooMany]

\* the loop over the pixels without the test for -9999
RECURSIVE ScanPixelsNoSkip(_, _, _)
ScanPixelsNoSkip(row, iPixel, st) ==
    IF iPixel > Len(row) THEN st
    ELSE IF st.nFound = LCP_MAX_CLASSES THEN ClsState(st.flags, -1, TRUE)
    ELSE IF (row[iPixel] + OFFSET) \notin st.flags
    THEN ScanPixelsNoSkip(row, iPixel + 1,
                          ClsState(st.flags \cup {row[iPixel] + OFFSET},
                                   st.nFound + 1, FALSE))
    ELSE ScanPixelsNoSkip(row, iPixel + 1, st)

\* the loop over the pixels of one row, from pixel iPixel (counted from 1)
RECURSIVE ScanPixels(_, _, _)
ScanPixels(row, iPixel, st) ==
    IF iPixel > Len(row) THEN st
    ELSE IF row[iPixel] = NoData THEN ScanPixels(row, iPixel + 1, st)
    ELSE IF st.nFound = LCP_MAX_CLASSES THEN ClsState(st.flags, -1, TRUE)
    ELSE IF (row[iPixel] + OFFSET) \notin st.flags
    THEN ScanPixels(row, iPixel + 1,
                    ClsState(st.flags \cup {row[iPixel] + OFFSET},
                             st.nFound + 1, FALSE))
    ELSE ScanPixels(row, iPixel + 1, st)

\* the elements of a finite set of integers in ascending order: the walk
\* "for (j = 0; j < RANGE_VAL; j++) if (flag[j])", begun at the lowest element
Ascending(S) ==
    IF S = {} THEN <<>>
    ELSE LET lo == CHOOSE x \in S : \A y \in S : x <= y
             hi == CHOOSE x \in S : \A y \in S : x >= y
             Flagged(j) == j \in S
         IN  SelectSeq([k \in 1..(hi - lo + 1) |-> lo + k - 1], Flagged)

\* the stores of "panClasses[0] = 0; for (j ...) panClasses[nIndex++] = j"
ClassStores(flags) ==
    LET js == Ascending(flags \cap (0..(RANGE_VAL - 1)))
    IN  <<[i |-> 0, v |-> 0]>> \o [k \in 1..Len(js) |-> [i |-> k, v |-> js[k]]]

ClsIdle ==
    /\ clsBand = <<>>
    /\ clsPc = "idle"
    /\ iLine = 0
    /\ pabyFlags = {}
    /\ nFound = 0
    /\ bTooMany = FALSE
    /\ eErr = "CE_None"
    /\ panWrites = <<>>
    /\ nNumClasses = 0

\* ---- the bands the classifier is run on ----
\* largest number of consecutive values put in a band
MaxDistinct == 102
\* lowest value of a band: at the bottom of the GInt16 range, below the
\* no-data value so that the run of values crosses it, near the top
BandBases == {MIN_VAL, NoData - 51, MAX_VAL - 200}
\* row widths
BandWidths == {30, 64}

\* the pixels in scan order: an optional leading no-data pixel, d consecutive
\* values from base upwards or downwards, an optional repeat of the first one
BandPixels(d, base, desc, lead, rep) ==
    LET run == [k \in 1..d |-> IF desc THEN base + d - k ELSE base + k - 1]
    IN  (IF lead THEN <<NoData>> ELSE <<>>) \o run
        \o (IF rep /\ d > 0 THEN <<run[1]>> ELSE <<>>)

\* cut into rows of width w, the last row filled up with no-data pixels
RowsOf(px, w) ==
    LET ny == IF Len(px) = 0 THEN 1 ELSE (Len(px) + w - 1) \div w
    IN  [r \in 1..ny |->
            [c \in 1..w |->
                IF (r - 1) * w + c <= Len(px) THEN px[(r - 1) * w + c]
                ELSE NoData]]

InitClassify ==
    /\ \E d \in 0..MaxDistinct, base \in BandBases, desc \in BOOLEAN,
          lead \in BOOLEAN, rep \in BOOLEAN, w \in BandWidths :
          clsBand = RowsOf(BandPixels(d, base, desc, lead, rep), w)
    /\ clsPc = "scan"
    /\ iLine = 0
    /\ pabyFlags = {}
    /\ nFound = 0
    /\ bTooMany = FALSE
    /\ eErr = "CE_None"
    /\ panWrites = <<>>
    /\ nNumClasses = 0

\* one turn of "for (iLine ...)": RasterIO of the row, then its pixels
ClassifyRow ==
    /\ clsPc = "scan"
    /\ iLine < Len(clsBand)
    /\ \/ /\ eErr' = "CE_Failure"
          /\ clsPc' = "emit"
          /\ UNCHANGED <<iLine, pabyFlags, nFound, bTooMany>>
       \/ LET st == ScanPixels(clsBand[iLine + 1], 1,
                               ClsState(pabyFlags, nFound, bTooMany))
          IN  /\ eErr' = "CE_None"
              /\ pabyFlags' = st.flags
              /\ nFound' = st.nFound
              /\ bTooMany' = st.bTooMany
              /\ iLine' = IF st.bTooMany THEN iLine ELSE iLine + 1
              /\ clsPc' = IF st.bTooMany THEN "emit" ELSE "scan"
    /\ UNCHANGED <<clsBand, panWrites, nNumClasses>>

\* after the loop: the class list unless too many, nNumClasses = nFound
ClassifyEmit ==
    /\ \/ clsPc = "emit"
       \/ clsPc = "scan" /\ iLine >= Len(clsBand)
    /\ panWrites' = IF bTooMany THEN panWrites ELSE ClassStores(pabyFlags)
    /\ nNumClasses' = nFound
    /\ clsPc' = "done"
    /\ UNCHANGED <<clsBand, iLine, pabyFlags, nFound, bTooMany, eErr>>

(***************************************************************************)
(* Strings.  A string is the sequence of its characters, so that the       *)
(* case-insensitive comparisons and atoi work on what the caller supplied. *)
(***************************************************************************)
LowerCase == <<"a", "b", "c", "d", "e", "f", "g", "h", "i", "j", "k", "l", "m",
               "n", "o", "p", "q", "r", "s", "t", "u", "v", "w", "x", "y", "z">>
UpperCase == <<"A", "B", "C", "D", "E", "F", "G", "H", "I", "J", "K", "L", "M",
               "N", "O", "P", "Q", "R", "S", "T", "U", "V", "W", "X", "Y", "Z">>
Digits == <<"0", "1", "2", "3", "4", "5", "6", "7", "8", "9">>

\* toupper
ToUpper(c) ==
    IF \E i \in 1..Len(LowerCase) : LowerCase[i] = c
    THEN UpperCase[CHOOSE i \in 1..Len(LowerCase) : LowerCase[i] = c]
    ELSE c

\* EQUAL(a, b): strcasecmp(a, b) == 0
EQUAL(a, b) ==
    /\ Len(a) = Len(b)
    /\ \A i \in 1..Len(a) : ToUpper(a[i]) = ToUpper(b[i])

\* STARTS_WITH_CI(a, b): strncasecmp(a, b, strlen(b)) == 0
STARTS_WITH_CI(a, b) ==
    /\ Len(a) >= Len(b)
    /\ \A i \in 1..Len(b) : ToUpper(a[i]) = ToUpper(b[i])

IsDigit(c) == \E i \in 1..Len(Digits) : Digits[i] = c
DigitValue(c) == (CHOOSE i \in 1..Len(Digits) : Digits[i] = c) - 1

\* the digits of atoi, from position i
RECURSIVE AtoiFrom(_, _, _)
AtoiFrom(s, i, acc) ==
    IF i > Len(s) \/ ~IsDigit(s[i]) THEN acc
    ELSE AtoiFrom(s, i + 1, acc * 10 + DigitValue(s[i]))

\* atoi: blanks, an optional sign, digits up to the first other character
RECURSIVE atoi(_)
atoi(s) ==
    IF s = <<>> THEN 0
    ELSE IF s[1] = " " THEN atoi(Tail(s))
    ELSE IF s[1] = "-" THEN -AtoiFrom(s, 2, 0)
    ELSE IF s[1] = "+" THEN AtoiFrom(s, 2, 0)
    ELSE AtoiFrom(s, 1, 0)

\* snprintf(szTemp, sizeof(szTemp), "%d", n)
RECURSIVE FormatNat(_)
FormatNat(n) ==
    IF n < 10 THEN <<Digits[n + 1]>>
    ELSE FormatNat(n \div 10) \o <<Digits[(n % 10) + 1]>>
FormatInt(n) == IF n < 0 THEN <<"-">> \o FormatNat(-n) ELSE FormatNat(n)

\* the names the driver compares option values with
W ==
    [METER |-> <<"M", "E", "T", "E", "R">>,
     METERS |-> <<"M", "E", "T", "E", "R", "S">>,
     FEET |-> <<"F", "E", "E", "T">>,
     FOOT |-> <<"F", "O", "O", "T">>,
     DEGREES |-> <<"D", "E", "G", "R", "E", "E", "S">>,
     PERCENT |-> <<"P", "E", "R", "C", "E", "N", "T">>,
     GRASS_CATEGORIES |-> <<"G", "R", "A", "S", "S", "_", "C", "A", "T", "E",
          "G", "O", "R", "I", "E", "S">>,
     GRASS_DEGREES |-> <<"G", "R", "A", "S", "S", "_", "D", "E", "G", "R",
          "E", "E", "S">>,
     AZIMUTH_DEGREES |-> <<"A", "Z", "I", "M", "U", "T", "H", "_", "D", "E",
          "G", "R", "E", "E", "S">>,
     NO_CUSTOM_AND_NO_FILE |-> <<"N", "O", "_", "C", "U", "S", "T", "O", "M",
          "_", "A", "N", "D", "_", "N", "O", "_", "F", "I", "L", "E">>,
     CUSTOM_AND_NO_FILE |-> <<"C", "U", "S", "T", "O", "M", "_", "A", "N",
          "D", "_", "N", "O", "_", "F", "I", "L", "E">>,
     NO_CUSTOM_AND_FILE |-> <<"N", "O", "_", "C", "U", "S", "T", "O", "M",
          "_", "A", "N", "D", "_", "F", "I", "L", "E">>,
     CUSTOM_AND_FILE |-> <<"C", "U", "S", "T", "O", "M", "_", "A", "N", "D",
          "_", "F", "I", "L", "E">>,
     CATEGORIES |-> <<"C", "A", "T", "E", "G", "O", "R", "I", "E", "S">>,
     METERS_X_10 |-> <<"M", "E", "T", "E", "R", "S", "_", "X", "_", "1",
          "0">>,
     METER_X_10 |-> <<"M", "E", "T", "E", "R", "_", "X", "_", "1", "0">>,
     FEET_X_10 |-> <<"F", "E", "E", "T", "_", "X", "_", "1", "0">>,
     FOOT_X_10 |-> <<"F", "O", "O", "T", "_", "X", "_", "1", "0">>,
     KG_PER_CUBIC_METER |-> <<"K", "G", "_", "P", "E", "R", "_", "C", "U",
          "B", "I", "C", "_", "M", "E", "T", "E", "R">>,
     POUND_PER_CUBIC_FOOT |-> <<"P", "O", "U", "N", "D", "_", "P", "E", "R",
          "_", "C", "U", "B", "I", "C", "_", "F", "O", "O", "T">>,
     KG_PER_CUBIC_METER_X_100 |-> <<"K", "G", "_", "P", "E", "R", "_", "C",
          "U", "B", "I", "C", "_", "M", "E", "T", "E", "R", "_", "X", "_",
          "1", "0", "0">>,
     POUND_PER_CUBIC_FOOT_X_1000 |-> <<"P", "O", "U", "N", "D", "_", "P",
          "E", "R", "_", "C", "U", "B", "I", "C", "_", "F", "O", "O", "T",
          "_", "X", "_", "1", "0", "0", "0">>,
     MG_PER_HECTARE_X_10 |-> <<"M", "G", "_", "P", "E", "R", "_", "H", "E",
          "C", "T", "A", "R", "E", "_", "X", "_", "1", "0">>,
     TONS_PER_ACRE_X_10 |-> <<"T", "O", "N", "S", "_", "P", "E", "R", "_",
          "A", "C", "R", "E", "_", "X", "_", "1", "0">>,
     SET_FROM_SRS |-> <<"S", "E", "T", "_", "F", "R", "O", "M", "_", "S",
          "R", "S">>,
     KILOMETER |-> <<"K", "I", "L", "O", "M", "E", "T", "E", "R">>,
     NO |-> <<"N", "O">>,
     FALSE |-> <<"F", "A", "L", "S", "E">>,
     OFF |-> <<"O", "F", "F">>,
     YES |-> <<"Y", "E", "S">>]

(***************************************************************************)
(* Numbers                                                                 *)
(***************************************************************************)
INT_MAX == 2147483647

\* A double is kept as a whole number of halves: Dbl(n) is n.0, and
\* HalfUnit the 0.5 added before the latitude is cut to an integer.
HalfUnit == 1
Dbl(n) == 2 * n * HalfUnit

\* static_cast<GInt32>(d): the fraction is dropped, towards zero
ToInt32(d) == IF d >= 0 THEN d \div (2 * HalfUnit) ELSE -((-d) \div (2 * HalfUnit))

\* fabs
Fabs(d) == IF d < 0 THEN -d ELSE d

\* x + y as an int holds it: the sum when it fits, and the sum reduced
\* modulo 2^32 into [-2^31, 2^31) when it does not
WrapAdd(x, y) ==
    IF x > 0 /\ y > INT_MAX - x THEN (x - INT_MAX - 1) + (y - INT_MAX - 1)
    ELSE IF x < 0 /\ y < ((-INT_MAX) - 1) - x
         THEN (x + INT_MAX + 1) + (y + INT_MAX + 1)
         ELSE x + y

\* a * b as an int holds it, for a >= 0
RECURSIVE WrapMul(_, _)
WrapMul(a, b) == IF a = 0 THEN 0 ELSE WrapAdd(WrapMul(a - 1, b), b)

(***************************************************************************)
(* The file.  What was written is kept as cells: offset |-> [ew, v], the   *)
(* elements v, each ew bytes wide, stored from that offset.  Bytes inside  *)
(* the length that were never written read as zero.                        *)
(***************************************************************************)
\* what a read returns when it does not meet a whole element of its width
Garbage == (-INT_MAX) - 1

EmptyFile == [len |-> 0, cells |-> <<>>]

CellEnd(f, o) == o + f.cells[o].ew * Len(f.cells[o].v)

\* the cells that share a byte with [pos, pos + n)
Overlapping(f, pos, n) ==
    {o \in DOMAIN f.cells : o < pos + n /\ pos < CellEnd(f, o)}

\* v without the zeros at its end: they read back as never-written bytes do
TrimZeros(v) ==
    LET nz == {i \in 1..Len(v) : v[i] # 0}
    IN  IF nz = {} THEN <<>>
        ELSE SubSeq(v, 1, CHOOSE i \in nz : \A j \in nz : j <= i)

\* VSIFWriteL(v, ew, Len(v), fp) with fp at pos
WriteAt(f, pos, ew, v) ==
    IF Len(v) = 0 THEN f
    ELSE LET keep == (DOMAIN f.cells) \ Overlapping(f, pos, ew * Len(v))
             kept == IF ew = 1 THEN v ELSE TrimZeros(v)
         IN  [len |-> IF pos + ew * Len(v) > f.len THEN pos + ew * Len(v)
                      ELSE f.len,
              cells |-> IF kept = <<>> THEN [o \in keep |-> f.cells[o]] @@ <<>>
                        ELSE (pos :> [ew |-> ew, v |-> kept])
                                 @@ [o \in keep |-> f.cells[o]]]

\* the element ew bytes wide at offset pos
ReadAt(f, pos, ew) ==
    LET over == Overlapping(f, pos, ew)
    IN  IF over = {} THEN 0
        ELSE LET o == CHOOSE x \in over : TRUE
             IN  IF Cardinality(over) = 1 /\ f.cells[o].ew = ew /\ o <= pos
                    /\ (pos - o) % ew = 0
                 THEN f.cells[o].v[((pos - o) \div ew) + 1]
                 ELSE Garbage

\* CPL_LSBSINT32PTR, CPL_LSBUINT16PTR and a double read with CPL_LSBPTR64
ReadInt32(f, pos) == ReadAt(f, pos, 4)
ReadUInt16(f, pos) ==
    LET x == ReadAt(f, pos, 2) IN IF x = Garbage THEN x ELSE x % 65536
ReadDouble(f, pos) == ReadAt(f, pos, 8)

\* the C string at pos after "*(pachHeader + pos + n - 1) = '\0'"
ReadString(f, pos, n) ==
    IF pos \in DOMAIN f.cells /\ f.cells[pos].ew = 1
    THEN SubSeq(f.cells[pos].v, 1, Min(Len(f.cells[pos].v), n - 1))
    ELSE <<>>

(***************************************************************************)
(* LCPDataset: Identify, Open, GetGeoTransform                             *)
(***************************************************************************)
LCP_HEADER_SIZE == 7316
LCP_MAX_PATH == 256
LCP_MAX_DESC == 512

\* the bytes GDALOpenInfo holds of the file when a driver is asked
OpenInfoHeaderBytes == 1024
nHeaderBytes(f) == Min(f.len, OpenInfoHeaderBytes)

\* the header bytes GDALOpenInfo holds: a field past them is not there
HeaderInt32(f, pos) ==
    IF pos + 4 <= nHeaderBytes(f) THEN ReadInt32(f, pos) ELSE Garbage

\* Identify without the test of the ground-fuels flag
IdentifyCrownOnly(f, info) ==
    /\ nHeaderBytes(f) >= 50
    /\ HeaderInt32(f, 0) \in {20, 21}
    /\ ~(HeaderInt32(f, 8) < -90 \/ HeaderInt32(f, 8) > 90)
    /\ EQUAL(info.osExtension, <<"l", "c", "p">>)

Identify(f, info) ==
    /\ nHeaderBytes(f) >= 50
    /\ HeaderInt32(f, 0) \in {20, 21}
    /\ HeaderInt32(f, 4) \in {20, 21}
    /\ ~(HeaderInt32(f, 8) < -90 \/ HeaderInt32(f, 8) > 90)
    /\ EQUAL(info.osExtension, <<"l", "c", "p">>)

\* CPL_TO_BOOL(field - 20)
HaveFuels(f, pos) == ReadInt32(f, pos) - 20 # 0

OpenBandCount(bHaveCrownFuels, bHaveGroundFuels) ==
    IF bHaveCrownFuels
    THEN (IF bHaveGroundFuels THEN 10 ELSE 8)
    ELSE (IF bHaveGroundFuels THEN 7 ELSE 5)

\* GDALCheckDatasetDimensions
GDALCheckDatasetDimensions(nXSize, nYSize) == nXSize >= 1 /\ nYSize >= 1

NullDS == [ok |-> FALSE]

\* the overflow test with the band count in place of the pixel size
LineOverflowsPerBand(nWidth, iPixelSize) == nWidth > INT_MAX \div (iPixelSize \div 2)

\* "nWidth > INT_MAX / iPixelSize"
LineOverflows(nWidth, iPixelSize) == nWidth > INT_MAX \div iPixelSize

\* Open up to the creation of the bands: the dataset, or no dataset
OpenHeader(f, info) ==
    IF ~Identify(f, info) \/ ~info.fpL THEN NullDS
    ELSE IF info.eAccess = "GA_Update" THEN NullDS
    ELSE IF f.len < LCP_HEADER_SIZE THEN NullDS
    ELSE LET nWidth == ReadInt32(f, 4164)
             nHeight == ReadInt32(f, 4168)
             bHaveCrownFuels == HaveFuels(f, 0)
             bHaveGroundFuels == HaveFuels(f, 4)
             nBands == OpenBandCount(bHaveCrownFuels, bHaveGroundFuels)
             iPixelSize == nBands * 2
             nTemp == ReadInt32(f, 4204)
         IN  IF ~GDALCheckDatasetDimensions(nWidth, nHeight) THEN NullDS
             ELSE IF LineOverflows(nWidth, iPixelSize) THEN NullDS
             ELSE [ok |-> TRUE,
                   nRasterXSize |-> nWidth,
                   nRasterYSize |-> nHeight,
                   bHaveCrownFuels |-> bHaveCrownFuels,
                   bHaveGroundFuels |-> bHaveGroundFuels,
                   nBands |-> nBands,
                   iPixelSize |-> iPixelSize,
                   nLineOffset |-> WrapMul(iPixelSize, nWidth),
                   LATITUDE |-> FormatInt(ReadInt32(f, 8)),
                   LINEAR_UNIT |-> IF nTemp = 1 THEN "Feet"
                                   ELSE IF nTemp = 0 THEN "Meters"
                                   ELSE "",
                   DESCRIPTION |-> ReadString(f, 6804, LCP_MAX_DESC),
                   bands |-> <<>>]

\* the switch on iBand: description, item prefix, name of the unit item,
\* and the header offsets of the unit code, the statistics and the file name
BandLayout(iBand, bHaveCrownFuels) ==
    CASE iBand = 1 -> <<"Elevation", "ELEVATION", "ELEVATION_UNIT", 4224, 44, 4244>>
      [] iBand = 2 -> <<"Slope", "SLOPE", "SLOPE_UNIT", 4226, 456, 4500>>
      [] iBand = 3 -> <<"Aspect", "ASPECT", "ASPECT_UNIT", 4228, 868, 4756>>
      [] iBand = 4 -> <<"Fuel models", "FUEL_MODEL", "FUEL_MODEL_OPTION", 4230, 1280, 5012>>
      [] iBand = 5 -> <<"Canopy cover", "CANOPY_COV", "CANOPY_COV_UNIT", 4232, 1692, 5268>>
      [] iBand = 6 /\ bHaveCrownFuels ->
             <<"Canopy height", "CANOPY_HT", "CANOPY_HT_UNIT", 4234, 2104, 5524>>
      [] iBand = 6 /\ ~bHaveCrownFuels -> <<"Duff", "DUFF", "DUFF_UNIT", 4240, 3340, 6292>>
      [] iBand = 7 /\ bHaveCrownFuels ->
             <<"Canopy base height", "CBH", "CBH_UNIT", 4236, 2516, 5780>>
      [] iBand = 7 /\ ~bHaveCrownFuels ->
             <<"Coarse woody debris", "CWD", "CWD_OPTION", 4242, 3752, 6548>>
      [] iBand = 8 -> <<"Canopy bulk density", "CBD", "CBD_UNIT", 4238, 2928, 6036>>
      [] iBand = 9 -> <<"Duff", "DUFF", "DUFF_UNIT", 4240, 3340, 6292>>
      [] iBand = 10 -> <<"Coarse woody debris", "CWD", "CWD_OPTION", 4242, 3752, 6548>>

\* the header offsets of the class entries the loop "for i = 0; i <= nTemp"
\* reads for FUEL_MODEL_VALUES
FuelModelReads(f) ==
    LET nTemp == ReadInt32(f, 1288)
    IN  IF nTemp > 0 /\ nTemp <= 100
        THEN [k \in 1..(nTemp + 1) |-> 1292 + (k - 1) * 4]
        ELSE <<>>

\* osValues: the entries read that lie in [nMinFM, nMaxFM]
FuelModelValues(f) ==
    LET nMinFM == ReadInt32(f, 1280)
        nMaxFM == ReadInt32(f, 1284)
        InRange(pos) == LET nTemp2 == ReadInt32(f, pos)
                        IN  nTemp2 >= nMinFM /\ nTemp2 <= nMaxFM
        kept == SelectSeq(FuelModelReads(f), InRange)
    IN  [k \in 1..Len(kept) |-> FormatInt(ReadInt32(f, kept[k]))]

\* one pass of the loop over iBand
OpenBand(f, iBand, bHaveCrownFuels) ==
    LET lay == BandLayout(iBand, bHaveCrownFuels)
    IN  [desc |-> lay[1],
         prefix |-> lay[2],
         unitKey |-> lay[3],
         unit |-> FormatInt(ReadUInt16(f, lay[4])),
         min |-> FormatInt(ReadInt32(f, lay[5])),
         max |-> FormatInt(ReadInt32(f, lay[5] + 4)),
         numClasses |-> FormatInt(ReadInt32(f, lay[5] + 8)),
         values |-> IF iBand = 4 THEN FuelModelValues(f) ELSE <<>>,
         file |-> ReadString(f, lay[6], LCP_MAX_PATH)]

\* GetGeoTransform with the origin taken from the eastern edge
GetGeoTransformFromEast(f) ==
    LET dfEast == ReadDouble(f, 4172)
        dfNorth == ReadDouble(f, 4188)
        dfCellX == ReadDouble(f, 4208)
        dfCellY == ReadDouble(f, 4216)
    IN  <<dfEast, dfCellX, 0, dfNorth, 0, -1 * dfCellY>>

GetGeoTransform(f) ==
    LET dfWest == ReadDouble(f, 4180)
        dfNorth == ReadDouble(f, 4188)
        dfCellX == ReadDouble(f, 4208)
        dfCellY == ReadDouble(f, 4216)
    IN  <<dfWest, dfCellX, 0, dfNorth, 0, -1 * dfCellY>>

(***************************************************************************)
(* Inputs that differ from a usual one in a bounded number of places       *)
(***************************************************************************)
\* the records got from base by replacing at most k of the fields named in
\* fields, each by one of its alternatives alts[field]
RECURSIVE Deviate(_, _, _, _)
Deviate(base, fields, alts, k) ==
    IF fields = <<>> \/ k = 0 THEN {base}
    ELSE LET fld == Head(fields)
         IN  Deviate(base, Tail(fields), alts, k)
             \cup UNION {Deviate([base EXCEPT ![fld] = v], Tail(fields), alts, k - 1) :
                            v \in alts[fld]}

(***************************************************************************)
(* Open: the files and open requests tried                                 *)
(***************************************************************************)
MaxHeaderDeviations == 2
FlagSkew == 1

\* the file cut or extended to n bytes
SetLen(f, n) ==
    [len |-> n,
     cells |-> [o \in {x \in DOMAIN f.cells : CellEnd(f, x) <= n} |-> f.cells[o]]]

UsualHeader ==
    [crown |-> 21, ground |-> 21, lat |-> 45, width |-> 2, height |-> 2,
     fmClasses |-> 3, len |-> LCP_HEADER_SIZE + 40,
     ext |-> <<"l", "c", "p">>, fpL |-> TRUE, eAccess |-> "GA_ReadOnly"]

HeaderAlternatives ==
    [crown |-> ((20 - FlagSkew)..(21 + FlagSkew)) \ {20, 21},
     ground |-> ((20 - FlagSkew)..(21 + FlagSkew)) \ {20, 21},
     lat |-> {-91, -90, 90, 91},
     width |-> {-1, 0} \cup UNION {{INT_MAX \div (2 * n), (INT_MAX \div (2 * n)) + 1} :
                                      n \in {5, 7, 8, 10}},
     height |-> {-1, 0},
     fmClasses |-> {0, 99, 100, 101},
     len |-> {49, 50, LCP_HEADER_SIZE - 1, LCP_HEADER_SIZE},
     ext |-> {<<"L", "C", "P">>, <<"l", "c">>, <<"t", "i", "f">>},
     fpL |-> {FALSE},
     eAccess |-> {"GA_Update"}]

HeaderFields ==
    <<"crown", "ground", "lat", "width", "height", "fmClasses", "len", "ext",
      "fpL", "eAccess">>

HeaderInputs ==
    UNION {Deviate([UsualHeader EXCEPT !.crown = c, !.ground = g], HeaderFields,
                   HeaderAlternatives, MaxHeaderDeviations) : c, g \in {20, 21}}

\* the records of the fuel models and of the canopy cover in the files
\* tried: minimum 1, maximum 300 and the 100 class slots of band 4, holding
\* the leading zero and the values 101..199, and minimum 250 of band 5
FuelModelSlots == <<0>> \o [k \in 1..(LCP_MAX_CLASSES - 1) |-> 100 + k]

\* the file a header input stands for
HeaderFile(h) ==
    SetLen(WriteAt(WriteAt(WriteAt(WriteAt(WriteAt(WriteAt(WriteAt(WriteAt(EmptyFile,
        0, 4, <<h.crown>>), 4, 4, <<h.ground>>), 8, 4, <<h.lat>>),
        1280, 4, <<1, 300, h.fmClasses>>), 1292, 4, FuelModelSlots),
        1692, 4, <<250>>),
        4164, 4, <<h.width>>), 4168, 4, <<h.height>>), h.len)

OpenIdle ==
    /\ lcpFile = EmptyFile
    /\ openInfo = [osExtension |-> <<>>, fpL |-> FALSE, eAccess |-> "GA_ReadOnly"]
    /\ openPc = "idle"
    /\ poDS = NullDS

InitOpen ==
    \E h \in HeaderInputs :
        /\ lcpFile = HeaderFile(h)
        /\ openInfo = [osExtension |-> h.ext, fpL |-> h.fpL, eAccess |-> h.eAccess]
        /\ openPc = "open"
        /\ poDS = NullDS

\* Open, from Identify to the overflow check
OpenReadHeader ==
    /\ openPc = "open"
    /\ poDS' = OpenHeader(lcpFile, openInfo)
    /\ openPc' = IF poDS'.ok THEN "bands" ELSE "done"
    /\ UNCHANGED <<lcpFile, openInfo>>

\* Open, the loop over the bands; RawRasterBand::Create may give no band
OpenCreateBands ==
    /\ openPc = "bands"
    /\ \E bCreated \in BOOLEAN :
          poDS' = IF bCreated
                  THEN [poDS EXCEPT !.bands =
                           [iBand \in 1..poDS.nBands |->
                               OpenBand(lcpFile, iBand, poDS.bHaveCrownFuels)]]
                  ELSE NullDS
    /\ openPc' = "done"
    /\ UNCHANGED <<lcpFile, openInfo>>

(***************************************************************************)
(* LCPDataset::CreateCopy: the checks of its input                         *)
(*                                                                         *)
(* cc is the call: the source dataset (band count, type, size,             *)
(* geotransform, spatial reference, file list, pixels), the creation       *)
(* options by name, bStrict, and what the collaborators answer.            *)
(***************************************************************************)
\* an option that is not in papszOptions
Absent == <<"(null)">>

CSLFetchNameValue(cc, key) == cc[key]
CSLFetchNameValueDef(cc, key, default) ==
    IF cc[key] = Absent THEN default ELSE cc[key]

\* CPLFetchBool: the default when absent, else false exactly for NO, FALSE,
\* OFF and 0
CPLFetchBool(cc, key, default) ==
    IF cc[key] = Absent THEN default
    ELSE ~(\/ EQUAL(cc[key], W.NO) \/ EQUAL(cc[key], W.FALSE)
           \/ EQUAL(cc[key], W.OFF) \/ EQUAL(cc[key], <<"0">>))

\* CPLAtof of a unit scale: digits with an optional fraction, in halves
CPLAtof(s) ==
    LET dot == IF \E i \in 1..Len(s) : s[i] = "."
               THEN CHOOSE i \in 1..Len(s) : s[i] = "." /\ \A j \in 1..(i - 1) : s[j] # "."
               ELSE Len(s) + 1
        frac == IF dot < Len(s) /\ IsDigit(s[dot + 1]) THEN DigitValue(s[dot + 1]) ELSE 0
    IN  Dbl(AtoiFrom(s, 1, 0)) + (frac \div 5) * HalfUnit

\* any band count from 5 to 10 let through
BandCountInRange(nBands) == nBands >= 5 /\ nBands <= 10

BandCountOK(nBands) == ~(nBands # 5 /\ nBands # 7 /\ nBands # 8 /\ nBands # 10)
HaveCrownFuels(nBands) == nBands = 8 \/ nBands = 10
HaveGroundFuels(nBands) == nBands = 7 \/ nBands = 10

\* the first rule of an if / else-if chain that the value meets: its code,
\* or NoCode when the chain runs into its else
NoCode == -1
RECURSIVE FirstMatch(_, _)
FirstMatch(pszTemp, rules) ==
    IF rules = <<>> THEN NoCode
    ELSE LET r == Head(rules)
         IN  IF \E n \in r.names :
                    IF r.prefix THEN STARTS_WITH_CI(pszTemp, n) ELSE EQUAL(pszTemp, n)
             THEN r.code
             ELSE FirstMatch(pszTemp, Tail(rules))

Eq(names, code) == [prefix |-> FALSE, names |-> names, code |-> code]
Starts(names, code) == [prefix |-> TRUE, names |-> names, code |-> code]

\* the chains of the unit options, in the order CreateCopy goes through
\* them: option, default, index in panMetadata, rules
HeightRules ==
    <<Eq({W.METERS, W.METER}, 1), Eq({W.FEET, W.FOOT}, 2),
      Eq({W.METERS_X_10, W.METER_X_10}, 3), Eq({W.FEET_X_10, W.FOOT_X_10}, 4)>>

UnitOptions ==
    <<[key |-> "ELEVATION_UNIT", default |-> W.METERS, index |-> 0, group |-> "all",
       rules |-> <<Starts({W.METER}, 0), Eq({W.FEET, W.FOOT}, 1)>>],
      [key |-> "SLOPE_UNIT", default |-> W.DEGREES, index |-> 1, group |-> "all",
       rules |-> <<Eq({W.DEGREES}, 0), Eq({W.PERCENT}, 1)>>],
      [key |-> "ASPECT_UNIT", default |-> W.AZIMUTH_DEGREES, index |-> 2, group |-> "all",
       rules |-> <<Eq({W.GRASS_CATEGORIES}, 0), Eq({W.GRASS_DEGREES}, 1),
                   Eq({W.AZIMUTH_DEGREES}, 2)>>],
      [key |-> "FUEL_MODEL_OPTION", default |-> W.NO_CUSTOM_AND_NO_FILE, index |-> 3,
       group |-> "all",
       rules |-> <<Eq({W.NO_CUSTOM_AND_NO_FILE}, 0), Eq({W.CUSTOM_AND_NO_FILE}, 1),
                   Eq({W.NO_CUSTOM_AND_FILE}, 2), Eq({W.CUSTOM_AND_FILE}, 3)>>],
      [key |-> "CANOPY_COV_UNIT", default |-> W.PERCENT, index |-> 4, group |-> "all",
       rules |-> <<Eq({W.CATEGORIES}, 0), Eq({W.PERCENT}, 1)>>],
      [key |-> "CANOPY_HT_UNIT", default |-> W.METERS_X_10, index |-> 5, group |-> "crown",
       rules |-> HeightRules],
      [key |-> "CBH_UNIT", default |-> W.METERS_X_10, index |-> 6, group |-> "crown",
       rules |-> HeightRules],
      [key |-> "CBD_UNIT", default |-> W.KG_PER_CUBIC_METER_X_100, index |-> 7,
       group |-> "crown",
       rules |-> <<Eq({W.KG_PER_CUBIC_METER}, 1), Eq({W.POUND_PER_CUBIC_FOOT}, 2),
                   Eq({W.KG_PER_CUBIC_METER_X_100}, 3),
                   Eq({W.POUND_PER_CUBIC_FOOT_X_1000}, 4)>>],
      [key |-> "DUFF_UNIT", default |-> W.MG_PER_HECTARE_X_10, index |-> 8,
       group |-> "ground",
       rules |-> <<Eq({W.MG_PER_HECTARE_X_10}, 1), Eq({W.TONS_PER_ACRE_X_10}, 2)>>]>>

\* panMetadata before the options are looked at (index 0..9 kept at 1..10)
DefaultMetadata == <<0, 0, 2, 0, 1, 3, 3, 3, 1, 0>>

\* whether CreateCopy looks at the option at all
OptionRead(opt, nBands) ==
    \/ opt.group = "all"
    \/ opt.group = "crown" /\ HaveCrownFuels(nBands)
    \/ opt.group = "ground" /\ HaveGroundFuels(nBands)

\* the unit options from the k-th on: panMetadata, or the option refused
RECURSIVE CheckUnits(_, _, _)
CheckUnits(cc, k, panMetadata) ==
    IF k > Len(UnitOptions)
    THEN [ok |-> TRUE,
          panMetadata |-> IF HaveGroundFuels(cc.nBands)
                          THEN [panMetadata EXCEPT ![10] = 1] ELSE panMetadata]
    ELSE LET opt == UnitOptions[k]
             code == FirstMatch(CSLFetchNameValueDef(cc, opt.key, opt.default), opt.rules)
         IN  IF ~OptionRead(opt, cc.nBands) THEN CheckUnits(cc, k + 1, panMetadata)
             ELSE IF code = NoCode THEN [ok |-> FALSE, refused |-> opt.key]
             ELSE CheckUnits(cc, k + 1, [panMetadata EXCEPT ![opt.index + 1] = code])

\* LINEAR_UNIT as an option: bSetLinearUnits and nLinearUnits
LinearUnitOption(cc) ==
    LET pszTemp == CSLFetchNameValueDef(cc, "LINEAR_UNIT", W.SET_FROM_SRS)
    IN  IF EQUAL(pszTemp, W.SET_FROM_SRS)
        THEN [bSetLinearUnits |-> TRUE, nLinearUnits |-> 0]
        ELSE IF STARTS_WITH_CI(pszTemp, W.METER)
        THEN [bSetLinearUnits |-> FALSE, nLinearUnits |-> 0]
        ELSE IF EQUAL(pszTemp, W.FOOT) \/ EQUAL(pszTemp, W.FEET)
        THEN [bSetLinearUnits |-> FALSE, nLinearUnits |-> 1]
        ELSE IF STARTS_WITH_CI(pszTemp, W.KILOMETER)
        THEN [bSetLinearUnits |-> FALSE, nLinearUnits |-> 2]
        ELSE [bSetLinearUnits |-> FALSE, nLinearUnits |-> 0]

\* the latitude, from the option or from the centre of the raster moved
\* into the geographic reference; the transformation is the collaborator's
Latitude(cc) ==
    IF CSLFetchNameValue(cc, "LATITUDE") # Absent
    THEN LET nLatitude == atoi(CSLFetchNameValue(cc, "LATITUDE"))
         IN  IF nLatitude > 90 \/ nLatitude < -90 THEN [ok |-> FALSE]
             ELSE [ok |-> TRUE, dfLatitude |-> Dbl(nLatitude)]
    ELSE IF cc.poSrcSRS
    THEN IF cc.poCT
         THEN IF ~cc.bTransformed THEN [ok |-> FALSE]
              ELSE [ok |-> TRUE, dfLatitude |-> cc.dfTransformedLat]
         ELSE [ok |-> TRUE, dfLatitude |-> 0]
    ELSE [ok |-> FALSE]

\* the unit name of the spatial reference left unread in strict mode
LinearUnitFromSRSStrictMeters(cc, lin) ==
    IF lin.bSetLinearUnits /\ cc.poSrcSRS
    THEN IF cc.pszUnit = Absent
         THEN IF cc.bStrict THEN [ok |-> FALSE] ELSE [ok |-> TRUE, nLinearUnits |-> 0]
         ELSE LET nLinearUnits ==
                      IF cc.bStrict THEN 0
                      ELSE IF EQUAL(cc.pszUnit, <<"m", "e", "t", "e", "r">>)
                         \/ EQUAL(cc.pszUnit, <<"m", "e", "t", "r", "e">>) THEN 0
                      ELSE IF EQUAL(cc.pszUnit, <<"f", "e", "e", "t">>)
                              \/ EQUAL(cc.pszUnit, <<"f", "o", "o", "t">>) THEN 1
                      ELSE IF STARTS_WITH_CI(cc.pszUnit, <<"k", "i", "l", "o", "m", "e", "t">>)
                      THEN 2
                      ELSE lin.nLinearUnits
              IN  IF cc.pszUnitScale # Absent /\ CPLAtof(cc.pszUnitScale) # Dbl(1)
                     /\ cc.bStrict
                  THEN [ok |-> FALSE]
                  ELSE [ok |-> TRUE, nLinearUnits |-> nLinearUnits]
    ELSE IF lin.bSetLinearUnits
    THEN IF cc.bStrict THEN [ok |-> FALSE] ELSE [ok |-> TRUE, nLinearUnits |-> 0]
    ELSE [ok |-> TRUE, nLinearUnits |-> lin.nLinearUnits]

\* the linear unit when it is to be set from the spatial reference
LinearUnitFromSRS(cc, lin) ==
    IF lin.bSetLinearUnits /\ cc.poSrcSRS
    THEN IF cc.pszUnit = Absent
         THEN IF cc.bStrict THEN [ok |-> FALSE] ELSE [ok |-> TRUE, nLinearUnits |-> 0]
         ELSE LET nLinearUnits ==
                      IF EQUAL(cc.pszUnit, <<"m", "e", "t", "e", "r">>)
                         \/ EQUAL(cc.pszUnit, <<"m", "e", "t", "r", "e">>) THEN 0
                      ELSE IF EQUAL(cc.pszUnit, <<"f", "e", "e", "t">>)
                              \/ EQUAL(cc.pszUnit, <<"f", "o", "o", "t">>) THEN 1
                      ELSE IF STARTS_WITH_CI(cc.pszUnit, <<"k", "i", "l", "o", "m", "e", "t">>)
                      THEN 2
                      ELSE IF cc.bStrict THEN 0 ELSE lin.nLinearUnits
              IN  IF cc.pszUnitScale # Absent /\ CPLAtof(cc.pszUnitScale) # Dbl(1)
                     /\ cc.bStrict
                  THEN [ok |-> FALSE]
                  ELSE [ok |-> TRUE, nLinearUnits |-> nLinearUnits]
    ELSE IF lin.bSetLinearUnits
    THEN IF cc.bStrict THEN [ok |-> FALSE] ELSE [ok |-> TRUE, nLinearUnits |-> 0]
    ELSE [ok |-> TRUE, nLinearUnits |-> lin.nLinearUnits]

\* CreateCopy from its entry to the fetch of DESCRIPTION: what it goes on
\* with, or ok = FALSE where it returns nullptr
Validate(cc) ==
    IF ~BandCountOK(cc.nBands) THEN [ok |-> FALSE]
    ELSE IF cc.eType # "GDT_Int16" /\ cc.bStrict THEN [ok |-> FALSE]
    ELSE LET units == CheckUnits(cc, 1, DefaultMetadata)
             bClassifyData == CPLFetchBool(cc, "CLASSIFY_DATA", TRUE)
             bCalculateStats ==
                 IF bClassifyData /\ ~CPLFetchBool(cc, "CALCULATE_STATS", TRUE) THEN TRUE
                 ELSE CPLFetchBool(cc, "CALCULATE_STATS", TRUE)
             lin == LinearUnitOption(cc)
             lat == Latitude(cc)
             srs == LinearUnitFromSRS(cc, lin)
         IN  IF ~units.ok THEN [ok |-> FALSE]
             ELSE IF ~lat.ok THEN [ok |-> FALSE]
             ELSE IF ~srs.ok THEN [ok |-> FALSE]
             ELSE [ok |-> TRUE,
                   bHaveCrownFuels |-> HaveCrownFuels(cc.nBands),
                   bHaveGroundFuels |-> HaveGroundFuels(cc.nBands),
                   panMetadata |-> units.panMetadata,
                   bCalculateStats |-> bCalculateStats,
                   bClassifyData |-> bClassifyData,
                   nLinearUnits |-> srs.nLinearUnits,
                   dfLatitude |-> lat.dfLatitude,
                   pszDescription |->
                       CSLFetchNameValueDef(cc, "DESCRIPTION",
                           <<"L", "C", "P", " ", "f", "i", "l", "e", " ", "c", "r", "e",
                             "a", "t", "e", "d", " ", "b", "y", " ", "G", "D", "A", "L",
                             ".">>)]

(***************************************************************************)
(* LCPDataset::CreateCopy: statistics, classes and the header              *)
(***************************************************************************)
LCP_MAX_BANDS == 10

\* ClassifyBandData as a whole; RasterIO fails at line failAt, if at all
RECURSIVE ClassifyLines(_, _, _, _)
ClassifyLines(rows, line, st, failAt) ==
    IF line >= Len(rows) THEN [st |-> st, eErr |-> "CE_None"]
    ELSE IF line = failAt THEN [st |-> st, eErr |-> "CE_Failure"]
    ELSE LET after == ScanPixels(rows[line + 1], 1, st)
         IN  IF after.bTooMany THEN [st |-> after, eErr |-> "CE_None"]
             ELSE ClassifyLines(rows, line + 1, after, failAt)

ClassifyBandData(rows, failAt) ==
    LET r == ClassifyLines(rows, 0, ClsState({}, 0, FALSE), failAt)
    IN  [eErr |-> r.eErr,
         nNumClasses |-> r.st.nFound,
         stores |-> IF r.st.bTooMany THEN <<>> ELSE ClassStores(r.st.flags)]

\* GDALRasterBand::GetStatistics(FALSE, TRUE, ...): minimum and maximum of
\* the pixels, as doubles
BandMinimum(rows) ==
    LET vals == {rows[r][c] : r \in 1..Len(rows), c \in 1..Len(rows[1])}
    IN  Dbl(CHOOSE x \in vals : \A y \in vals : x <= y)
BandMaximum(rows) ==
    LET vals == {rows[r][c] : r \in 1..Len(rows), c \in 1..Len(rows[1])}
    IN  Dbl(CHOOSE x \in vals : \A y \in vals : x >= y)

\* the pixels of band iBand of the source, row by row
SrcBand(cc, iBand) ==
    [r \in 1..cc.nYSize |->
        [c \in 1..cc.nXSize |-> cc.nFirstPixel + 10 * iBand + (r - 1) * cc.nXSize + c]]

\* one turn of the loop "for i < nBands" under bCalculateStats: what
\* GetStatistics and ClassifyBandData give for band i (from 0)
CalculateStats(cc, v, i) ==
    LET rows == SrcBand(cc, i + 1)
        bStats == (i + 1) \notin cc.statsFail
    IN  [dfMin |-> IF bStats THEN BandMinimum(rows) ELSE 0,
         dfMax |-> IF bStats THEN BandMaximum(rows) ELSE 0,
         cls |-> IF v.bClassifyData
                 THEN ClassifyBandData(rows, IF (i + 1) \in cc.classifyFail THEN 0 ELSE -1)
                 ELSE [eErr |-> "CE_None", nNumClasses |-> 0, stores |-> <<>>]]

\* padfMin, padfMax, panFound and panClasses when the file is created; band i
\* stores into panClasses + i * LCP_MAX_CLASSES, and a store past the end of
\* the array is told by bOverrun
Statistics(cc, v) ==
    IF ~v.bCalculateStats
    THEN [padfMin |-> Rep(0, cc.nBands),
          padfMax |-> Rep(0, cc.nBands),
          panFound |-> Rep(0, cc.nBands),
          panClasses |-> Rep(0, cc.nBands * LCP_MAX_CLASSES),
          bOverrun |-> FALSE]
    ELSE LET per == [i \in 1..cc.nBands |-> CalculateStats(cc, v, i - 1)] @@ <<>>
             Stored(i, k) == IF k < Len(per[i].cls.stores)
                             THEN per[i].cls.stores[k + 1].v ELSE 0
         IN  [padfMin |-> [i \in 1..cc.nBands |-> per[i].dfMin] @@ <<>>,
              padfMax |-> [i \in 1..cc.nBands |-> per[i].dfMax] @@ <<>>,
              panFound |-> [i \in 1..cc.nBands |-> per[i].cls.nNumClasses] @@ <<>>,
              panClasses |-> [p \in 1..(cc.nBands * LCP_MAX_CLASSES) |->
                                 Stored(((p - 1) \div LCP_MAX_CLASSES) + 1,
                                        (p - 1) % LCP_MAX_CLASSES)] @@ <<>>,
              bOverrun |-> Len(per[cc.nBands].cls.stores) > LCP_MAX_CLASSES]

\* CPLStrnlen(s, n) bytes of s
Strn(s, n) == SubSeq(s, 1, Min(Len(s), n))

(***************************************************************************)
(* The calls CreateCopy makes on the handle of the new file, in order:     *)
(* VSIFWriteL, VSIFSeekL with SEEK_SET and with SEEK_CUR, and VSIFTellL    *)
(* in a CPLAssert.                                                         *)
(***************************************************************************)
Write(ew, v) == [op |-> "write", ew |-> ew, v |-> v]
SeekSet(to) == [op |-> "seek", to |-> to]
SeekCur(n) == [op |-> "skip", n |-> n]
Tell == [op |-> "tell"]

RECURSIVE Flatten(_)
Flatten(ss) == IF ss = <<>> THEN <<>> ELSE Head(ss) \o Flatten(Tail(ss))

\* one call with the handle at position at: where the handle is then, the
\* end of what was written, the cell written and what VSIFTellL gave
Step(c, at) ==
    IF c.op = "write"
    THEN [pos |-> at + c.ew * Len(c.v),
          len |-> IF Len(c.v) = 0 THEN 0 ELSE at + c.ew * Len(c.v),
          cells |-> IF c.ew = 1
                    THEN (IF c.v = <<>> THEN <<>> ELSE at :> [ew |-> 1, v |-> c.v])
                    ELSE (IF TrimZeros(c.v) = <<>> THEN <<>>
                          ELSE at :> [ew |-> c.ew, v |-> TrimZeros(c.v)]),
          tells |-> <<>>]
    ELSE IF c.op = "seek" THEN [pos |-> c.to, len |-> 0, cells |-> <<>>, tells |-> <<>>]
    ELSE IF c.op = "skip" THEN [pos |-> at + c.n, len |-> 0, cells |-> <<>>, tells |-> <<>>]
    ELSE [pos |-> at, len |-> 0, cells |-> <<>>, tells |-> <<at>>]

\* the calls lo..hi in order, the handle at position at before the first:
\* the first half, then the second half from where the first left the handle
RECURSIVE RunRange(_, _, _, _)
RunRange(calls, lo, hi, at) ==
    IF lo = hi THEN Step(calls[lo], at)
    ELSE LET mid == (lo + hi) \div 2
             first == RunRange(calls, lo, mid, at)
             second == RunRange(calls, mid + 1, hi, first.pos)
         IN  [tells |-> first.tells \o second.tells,
              cells |-> second.cells @@ first.cells,
              len |-> IF second.len > first.len THEN second.len ELSE first.len,
              pos |-> second.pos]

\* the file the calls leave when made on a file just created, the position
\* of the handle after them, and the positions VSIFTellL gave
Run(calls) ==
    LET r == RunRange(calls, 1, Len(calls), 0)
    IN  [f |-> [len |-> r.len, cells |-> r.cells], pos |-> r.pos, tells |-> r.tells]

\* the turn that leaves the handle after the count when no classes are
\* written
WriteStatsNoAdvance(v, st, i) ==
    (IF i = 5 /\ ~v.bHaveCrownFuels /\ v.bHaveGroundFuels
     THEN <<SeekSet(3340)>> ELSE <<>>)
    \o <<Write(4, <<ToInt32(st.padfMin[i + 1])>>),
         Write(4, <<ToInt32(st.padfMax[i + 1])>>)>>
    \o (IF v.bClassifyData
        THEN <<Write(4, <<st.panFound[i + 1]>>),
               Write(4, SubSeq(st.panClasses, i * LCP_MAX_CLASSES + 1,
                               (i + 1) * LCP_MAX_CLASSES))>>
        ELSE <<Write(4, <<-1>>)>>)

\* the turn without the seek past the crown fuels' statistics
WriteStatsInSequence(v, st, i) ==
    <<Write(4, <<ToInt32(st.padfMin[i + 1])>>),
      Write(4, <<ToInt32(st.padfMax[i + 1])>>)>>
    \o (IF v.bClassifyData
        THEN <<Write(4, <<st.panFound[i + 1]>>),
               Write(4, SubSeq(st.panClasses, i * LCP_MAX_CLASSES + 1,
                               (i + 1) * LCP_MAX_CLASSES))>>
        ELSE <<Write(4, <<-1>>), SeekCur(4 * LCP_MAX_CLASSES)>>)

\* one turn of the header's loop over the statistics, i from 0
WriteStats(v, st, i) ==
    (IF i = 5 /\ ~v.bHaveCrownFuels /\ v.bHaveGroundFuels
     THEN <<SeekSet(3340)>> ELSE <<>>)
    \o <<Write(4, <<ToInt32(st.padfMin[i + 1])>>),
         Write(4, <<ToInt32(st.padfMax[i + 1])>>)>>
    \o (IF v.bClassifyData
        THEN <<Write(4, <<st.panFound[i + 1]>>),
               Write(4, SubSeq(st.panClasses, i * LCP_MAX_CLASSES + 1,
                               (i + 1) * LCP_MAX_CLASSES))>>
        ELSE <<Write(4, <<-1>>), SeekCur(4 * LCP_MAX_CLASSES)>>)

\* one turn of the header's loop over the file names, i from 0
WriteFileName(cc, v, i) ==
    (IF i = 5 /\ ~v.bHaveCrownFuels /\ v.bHaveGroundFuels
     THEN <<SeekSet(6292)>> ELSE <<>>)
    \o <<Write(1, Strn(cc.papszFileList[1], LCP_MAX_PATH)),
         SeekSet(4244 + (256 * (i + 1)))>>

\* the header, from the flags to the seek to the first line
HeaderCalls(cc, v, st) ==
    <<Write(4, <<IF v.bHaveCrownFuels THEN 21 ELSE 20>>),
      Write(4, <<IF v.bHaveGroundFuels THEN 21 ELSE 20>>),
      Write(4, <<ToInt32(v.dfLatitude + HalfUnit)>>),
      Write(8, <<cc.srcGT[1] + cc.srcGT[2] * cc.nXSize>>),
      Write(8, <<cc.srcGT[1]>>),
      Write(8, <<cc.srcGT[4]>>),
      Write(8, <<cc.srcGT[4] + cc.srcGT[6] * cc.nYSize>>)>>
    \o (IF v.bCalculateStats
        THEN Flatten([k \in 1..cc.nBands |-> WriteStats(v, st, k - 1)])
        ELSE <<SeekSet(4164)>>)
    \o <<Tell,
         SeekSet(4164),
         Write(4, <<cc.nXSize>>),
         Write(4, <<cc.nYSize>>),
         Write(8, <<cc.srcGT[1] + cc.srcGT[2] * cc.nXSize>>),
         Write(8, <<cc.srcGT[1]>>),
         Write(8, <<cc.srcGT[4]>>),
         Write(8, <<cc.srcGT[4] + cc.srcGT[6] * cc.nYSize>>),
         Write(4, <<v.nLinearUnits>>),
         Write(8, <<cc.srcGT[2]>>),
         Write(8, <<Fabs(cc.srcGT[6])>>),
         Write(2, v.panMetadata)>>
    \o (IF cc.papszFileList # <<>>
        THEN Flatten([k \in 1..cc.nBands |-> WriteFileName(cc, v, k - 1)])
        ELSE <<SeekSet(6804)>>)
    \o <<Tell,
         SeekSet(6804),
         Write(1, Strn(v.pszDescription, LCP_MAX_DESC)),
         Tell,
         SeekSet(LCP_HEADER_SIZE)>>

\* the new file with its header, the handle at the first line
WriteHeader(cc, v, st) == Run(HeaderCalls(cc, v, st))

(***************************************************************************)
(* CreateCopy: the calls tried                                             *)
(***************************************************************************)
MaxDeviations == 1

Bogus == <<"B", "O", "G", "U", "S">>
LongText == [k \in 1..600 |-> "x"]

UsualCall ==
    [nBands |-> 10, eType |-> "GDT_Int16", bStrict |-> FALSE,
     osExtension |-> <<"l", "c", "p">>,
     ELEVATION_UNIT |-> Absent, SLOPE_UNIT |-> Absent, ASPECT_UNIT |-> Absent,
     FUEL_MODEL_OPTION |-> Absent, CANOPY_COV_UNIT |-> Absent,
     CANOPY_HT_UNIT |-> Absent, CBH_UNIT |-> Absent, CBD_UNIT |-> Absent,
     DUFF_UNIT |-> Absent, CALCULATE_STATS |-> Absent, CLASSIFY_DATA |-> Absent,
     LINEAR_UNIT |-> Absent, LATITUDE |-> Absent, DESCRIPTION |-> Absent,
     poSrcSRS |-> TRUE, poCT |-> TRUE, bTransformed |-> TRUE,
     dfTransformedLat |-> Dbl(45),
     pszUnit |-> <<"m", "e", "t", "r", "e">>, pszUnitScale |-> <<"1">>,
     srcGT |-> <<Dbl(100), Dbl(30), 0, Dbl(2000), 0, -Dbl(30)>>,
     nXSize |-> 2, nYSize |-> 2, nFirstPixel |-> 0,
     papszFileList |-> <<<<"s", "r", "c", ".", "t", "i", "f">>>>,
     statsFail |-> {}, classifyFail |-> {}, copyFail |-> {}, writeFail |-> {},
     bCreated |-> TRUE, nCancelAt |-> 0]

CallAlternatives ==
    [nBands |-> {6, 11},
     eType |-> {"GDT_Byte"},
     bStrict |-> {},
     osExtension |-> {<<"L", "C", "P">>, <<"t", "i", "f">>},
     ELEVATION_UNIT |-> {W.FEET, W.METER \o <<"S", "Q">>, Bogus},
     SLOPE_UNIT |-> {W.PERCENT, Bogus},
     ASPECT_UNIT |-> {W.GRASS_DEGREES, Bogus},
     FUEL_MODEL_OPTION |-> {W.CUSTOM_AND_FILE, Bogus},
     CANOPY_COV_UNIT |-> {W.CATEGORIES, Bogus},
     CANOPY_HT_UNIT |-> {W.FEET, Bogus},
     CBH_UNIT |-> {W.METER, Bogus},
     CBD_UNIT |-> {W.POUND_PER_CUBIC_FOOT, Bogus},
     DUFF_UNIT |-> {W.TONS_PER_ACRE_X_10, Bogus},
     CALCULATE_STATS |-> {W.NO},
     CLASSIFY_DATA |-> {W.NO},
     LINEAR_UNIT |-> {W.FEET, W.KILOMETER \o <<"S">>, Bogus},
     LATITUDE |-> {<<"-", "4", "5">>, <<"9", "0">>, <<"9", "1">>, <<"-", "9", "1">>,
                  <<"-", "9", "0">>, <<"0">>},
     DESCRIPTION |-> {LongText},
     poSrcSRS |-> {FALSE},
     poCT |-> {FALSE},
     bTransformed |-> {FALSE},
     dfTransformedLat |-> {-Dbl(45), -Dbl(45) - HalfUnit},
     pszUnit |-> {Absent, <<"F", "o", "o", "t">>, <<"d", "e", "g", "r", "e", "e">>},
     pszUnitScale |-> {Absent, <<"0", ".", "5">>},
     srcGT |-> {<<-Dbl(7) - HalfUnit, HalfUnit, 0, Dbl(3), 0, Dbl(2)>>},
     nXSize |-> {3},
     nYSize |-> {1},
     nFirstPixel |-> {NoData - 12},
     papszFileList |-> {<<>>},
     statsFail |-> {{1}},
     classifyFail |-> {{2}},
     copyFail |-> {{0}, {1}},
     writeFail |-> {{1}},
     bCreated |-> {FALSE},
     nCancelAt |-> {1, 2, 3, 4}]

CallFields ==
    <<"nBands", "eType", "osExtension", "ELEVATION_UNIT", "SLOPE_UNIT",
      "ASPECT_UNIT", "FUEL_MODEL_OPTION", "CANOPY_COV_UNIT", "CANOPY_HT_UNIT",
      "CBH_UNIT", "CBD_UNIT", "DUFF_UNIT", "CALCULATE_STATS", "CLASSIFY_DATA",
      "LINEAR_UNIT", "LATITUDE", "DESCRIPTION", "poSrcSRS", "poCT",
      "bTransformed", "dfTransformedLat", "pszUnit", "pszUnitScale", "srcGT",
      "nXSize", "nYSize", "nFirstPixel", "papszFileList", "statsFail",
      "classifyFail", "copyFail", "writeFail", "bCreated", "nCancelAt">>

\* the calls that differ in what decides the layout of the header: the band
\* count, CALCULATE_STATS, CLASSIFY_DATA and whether the source has a file
\* list, in every combination
LayoutCalls ==
    {[UsualCall EXCEPT !.nBands = n, !.CALCULATE_STATS = s, !.CLASSIFY_DATA = c,
                       !.papszFileList = l] :
        n \in {5, 7, 8, 10}, s \in {Absent, W.NO}, c \in {Absent, W.NO},
        l \in {UsualCall.papszFileList, <<>>}}

CallInputs ==
    LayoutCalls
    \cup UNION {Deviate([UsualCall EXCEPT !.nBands = n, !.bStrict = b], CallFields,
                        CallAlternatives, MaxDeviations) :
                   n \in {5, 7, 8, 10}, b \in BOOLEAN}

(***************************************************************************)
(* CreateCopy: the steps                                                   *)
(***************************************************************************)
CcIdle ==
    /\ call = [nBands |-> 0]
    /\ ccPc = "idle"
    /\ ccLocals = [ok |-> FALSE]
    /\ fpPos = 0
    /\ fpOpen = FALSE
    /\ ccTells = <<>>
    /\ ccLine = 0
    /\ ccProgress = <<>>
    /\ panScanline = "null"

InitCreateCopy ==
    /\ call \in CallInputs
    /\ ccPc = "validate"
    /\ ccLocals = [ok |-> FALSE]
    /\ fpPos = 0
    /\ fpOpen = FALSE
    /\ ccTells = <<>>
    /\ ccLine = 0
    /\ ccProgress = <<>>
    /\ panScanline = "null"
    /\ OpenIdle

\* the file created before the checks of the input
CcValidateAfterCreate ==
    /\ ccPc = "validate"
    /\ ccLocals' = Validate(call)
    /\ ccPc' = IF ccLocals'.ok THEN "header" ELSE "failed"
    /\ fpOpen' = TRUE
    /\ UNCHANGED <<call, fpPos, ccTells, ccLine, ccProgress, panScanline,
                   openVars>>

\* from the entry to the fetch of DESCRIPTION
CcValidate ==
    /\ ccPc = "validate"
    /\ ccLocals' = Validate(call)
    /\ ccPc' = IF ccLocals'.ok THEN "header" ELSE "failed"
    /\ UNCHANGED <<call, fpPos, fpOpen, ccTells, ccLine, ccProgress, panScanline,
                   openVars>>

\* statistics and classes, VSIFOpenL(pszFilename, "wb"), the header
CcWriteHeader ==
    /\ ccPc = "header"
    /\ IF call.bCreated
       THEN LET h == WriteHeader(call, ccLocals, Statistics(call, ccLocals))
            IN  /\ lcpFile' = h.f
                /\ fpPos' = h.pos
                /\ fpOpen' = TRUE
                /\ ccTells' = h.tells
                /\ ccPc' = "begin"
       ELSE /\ ccPc' = "failed"
            /\ UNCHANGED <<lcpFile, fpPos, fpOpen, ccTells>>
    /\ UNCHANGED <<call, ccLocals, ccLine, ccProgress, panScanline, openInfo,
                   openPc, poDS>>

\* pfnProgress whose answer is not looked at
CancelledNever(nCalls) == FALSE

\* pfnProgress: FALSE at the call numbered nCancelAt
Cancelled(nCalls) == call.nCancelAt = nCalls

\* panScanline = VSIMalloc3(2, nBands, nXSize); pfnProgress(0.0, ...)
CcBegin ==
    /\ ccPc = "begin"
    /\ ccProgress' = Append(ccProgress, <<0, 1>>)
    /\ IF Cancelled(Len(ccProgress'))
       THEN fpOpen' = FALSE /\ panScanline' = "freed" /\ ccPc' = "failed"
       ELSE fpOpen' = fpOpen /\ panScanline' = "live" /\ ccPc' = "lines"
    /\ UNCHANGED <<call, ccLocals, fpPos, ccTells, ccLine, openVars>>

\* values an element of panScanline may hold before anything is stored in it
Indeterminate == {0, 255}

\* what panScanline holds of band iBand after the RasterIO of line: the
\* line of the band, or, the RasterIO of the first band failing at a line of
\* copyFail, what the buffer held before (g when nothing was stored yet)
RECURSIVE ScanlineOfBand(_, _, _)
ScanlineOfBand(iBand, line, g) ==
    IF iBand = 1 /\ line \in call.copyFail
    THEN IF line = 0 THEN [c \in 1..call.nXSize |-> g]
         ELSE ScanlineOfBand(iBand, line - 1, g)
    ELSE SrcBand(call, iBand)[line + 1]

\* panScanline after the RasterIO of every band: pixel-interleaved
Scanline(line, g) ==
    [k \in 1..(call.nBands * call.nXSize) |->
        ScanlineOfBand(((k - 1) % call.nBands) + 1, line, g)[((k - 1) \div call.nBands) + 1]]

\* one turn of the loop over the lines
CcCopyLine ==
    /\ ccPc = "lines"
    /\ ccLine < call.nYSize
    /\ IF ccLine \in call.writeFail
       THEN UNCHANGED <<lcpFile, fpPos>>
       ELSE \E g \in (IF ccLine = 0 /\ 0 \in call.copyFail THEN Indeterminate ELSE {0}) :
                /\ lcpFile' = WriteAt(lcpFile, fpPos, 2, Scanline(ccLine, g))
                /\ fpPos' = fpPos + 2 * Len(Scanline(ccLine, g))
    /\ ccProgress' = Append(ccProgress, <<ccLine, call.nYSize>>)
    /\ IF Cancelled(Len(ccProgress'))
       THEN /\ fpOpen' = FALSE /\ panScanline' = "freed"
            /\ ccPc' = "failed" /\ ccLine' = ccLine
       ELSE /\ fpOpen' = fpOpen /\ panScanline' = panScanline
            /\ ccPc' = "lines" /\ ccLine' = ccLine + 1
    /\ UNCHANGED <<call, ccLocals, ccTells, openInfo, openPc, poDS>>

\* after the loop: VSIFree, VSIFCloseL, pfnProgress(1.0, ...),
\* GDALOpen(pszFilename)
CcFinish ==
    /\ ccPc = "lines"
    /\ ccLine >= call.nYSize
    /\ panScanline' = "freed"
    /\ fpOpen' = FALSE
    /\ ccProgress' = Append(ccProgress, <<1, 1>>)
    /\ IF Cancelled(Len(ccProgress'))
       THEN ccPc' = "failed" /\ UNCHANGED <<openInfo, openPc>>
       ELSE /\ ccPc' = "reopen"
            /\ openInfo' = [osExtension |-> call.osExtension, fpL |-> TRUE,
                            eAccess |-> "GA_ReadOnly"]
            /\ openPc' = "open"
    /\ UNCHANGED <<call, ccLocals, fpPos, ccTells, ccLine, lcpFile, poDS>>

(***************************************************************************)
(* GIFAbstractRasterBand::GIFAbstractRasterBand                            *)
(*                                                                         *)
(* psImage is what the constructor is given: the saved image (its          *)
(* Interlace flag, its extension blocks, its colour map or the one of the  *)
(* file), nRasterYSize of the dataset, nBackground and                     *)
(* bAdvertiseInterlacedMDI.                                                *)
(***************************************************************************)
\* first row and distance of the rows of the four passes of an interlaced
\* image
InterlacedOffset == <<0, 4, 2, 1>>
InterlacedJumps == <<8, 8, 4, 2>>

\* the rows of a pass numbered as they come, one after the other
RECURSIVE InterlacePassDense(_, _, _, _)
InterlacePassDense(st, j, jump, nRasterYSize) ==
    IF j >= nRasterYSize THEN st
    ELSE InterlacePassDense([map |-> [st.map EXCEPT ![j + 1] = st.iLine],
                             iLine |-> st.iLine + 1,
                             stores |-> Append(st.stores, j)],
                            j + 1, jump, nRasterYSize)

\* the rows of a pass given their own number
RECURSIVE InterlacePassIdentity(_, _, _, _)
InterlacePassIdentity(st, j, jump, nRasterYSize) ==
    IF j >= nRasterYSize THEN st
    ELSE InterlacePassIdentity([map |-> [st.map EXCEPT ![j + 1] = j],
                                iLine |-> st.iLine + 1,
                                stores |-> Append(st.stores, j)],
                               j + jump, jump, nRasterYSize)

\* for (j = ...; j < nRasterYSize; j += jump) panInterlaceMap[j] = iLine++
RECURSIVE InterlacePass(_, _, _, _)
InterlacePass(st, j, jump, nRasterYSize) ==
    IF j >= nRasterYSize THEN st
    ELSE InterlacePass([map |-> [st.map EXCEPT ![j + 1] = st.iLine],
                        iLine |-> st.iLine + 1,
                        stores |-> Append(st.stores, j)],
                       j + jump, jump, nRasterYSize)

\* the first flagged graphic control extension kept
TransparentColorFirstWins(block, nTransparent) ==
    IF block.Function # 249 \/ block.ByteCount < 4 THEN nTransparent
    ELSE IF block.Bytes[1] % 2 = 0 THEN nTransparent
    ELSE IF nTransparent # -1 THEN nTransparent
    ELSE block.Bytes[4]

\* one turn of the loop over the extension blocks: nTransparentColor after
\* it (0xf9 is 249; pExtData[0] & 0x1 is the parity of the byte)
TransparentColor(block, nTransparent) ==
    IF block.Function # 249 \/ block.ByteCount < 4 THEN nTransparent
    ELSE IF block.Bytes[1] % 2 = 0 THEN nTransparent
    ELSE block.Bytes[4]

\* the colour map the table is made from: the one of the image, or the one
\* of the file when the image has none
GifColorMap(img) == IF img.ColorMap # <<>> THEN img.ColorMap ELSE img.SColorMap

\* the loop over the colours
ColorTable(psGifCT, nTransparent) ==
    [k \in 1..Len(psGifCT) |->
        [c1 |-> psGifCT[k].Red, c2 |-> psGifCT[k].Green, c3 |-> psGifCT[k].Blue,
         c4 |-> IF k - 1 = nTransparent THEN 0 ELSE 255]]

(***************************************************************************)
(* The images the constructor is run on                                    *)
(***************************************************************************)
\* largest height of an interlaced image
MaxHeight == 16
\* most extension blocks of an image
MaxExtBlocks == 3

GraphicControl(flags, index) ==
    [Function |-> 249, ByteCount |-> 4, Bytes |-> <<flags, 0, 0, index>>]

\* graphic control extensions that name colours 1, 2 and 200, one without
\* the transparency flag, one of three bytes, and a comment extension
ExtBlockKinds ==
    {GraphicControl(1, 1), GraphicControl(9, 2), GraphicControl(5, 200),
     GraphicControl(4, 3),
     [Function |-> 249, ByteCount |-> 3, Bytes |-> <<1, 0, 0>>],
     [Function |-> 254, ByteCount |-> 4, Bytes |-> <<1, 0, 0, 0>>]}

ExtBlockLists(n) == UNION {[1..k -> ExtBlockKinds] : k \in 0..n}

Palette(n) == [k \in 1..n |-> [Red |-> 10 * k, Green |-> 20 * k, Blue |-> 30 * k]]

BandInputs ==
    [null : {FALSE}, Interlace : {TRUE}, nRasterYSize : 1..MaxHeight,
     ExtensionBlocks : ExtBlockLists(1),
     ColorMap : {Palette(2)}, SColorMap : {Palette(4)},
     nBackground : {255}, bAdvertiseInterlacedMDI : {TRUE}]
    \cup
    [null : {FALSE}, Interlace : {FALSE}, nRasterYSize : {3},
     ExtensionBlocks : ExtBlockLists(MaxExtBlocks),
     ColorMap : {<<>>}, SColorMap : {Palette(4)},
     nBackground : {255, 3}, bAdvertiseInterlacedMDI : BOOLEAN]
    \cup
    [null : {TRUE}, Interlace : {FALSE}, nRasterYSize : {3},
     ExtensionBlocks : {<<>>}, ColorMap : {<<>>}, SColorMap : {Palette(4)},
     nBackground : {255}, bAdvertiseInterlacedMDI : {FALSE}]

(***************************************************************************)
(* The constructor: the steps                                              *)
(***************************************************************************)
BandIdle ==
    /\ psImage = [null |-> TRUE]
    /\ bandPc = "idle"
    /\ iPass = 0
    /\ iMapLine = 0
    /\ panInterlaceMap = <<>>
    /\ mapStores = <<>>
    /\ iExtBlock = 0
    /\ nTransparentColor = 0
    /\ poColorTable = <<>>
    /\ bandMetadata = <<>>

\* after the member initialisers: panInterlaceMap(nullptr),
\* poColorTable(nullptr), nTransparentColor(0)
InitBand ==
    /\ psImage \in BandInputs
    /\ bandPc = "setup"
    /\ iPass = 0
    /\ iMapLine = 0
    /\ panInterlaceMap = <<>>
    /\ mapStores = <<>>
    /\ iExtBlock = 0
    /\ nTransparentColor = 0
    /\ poColorTable = <<>>
    /\ bandMetadata = <<>>

YES == <<"Y", "E", "S">>
IMAGE_STRUCTURE == <<"I", "M", "A", "G", "E", "_", "S", "T", "R", "U", "C", "T", "U", "R", "E">>

\* up to the loop over the passes: the return when there is no image, the
\* item INTERLACED, CPLCalloc of the map
BandSetup ==
    /\ bandPc = "setup"
    /\ IF psImage.null
       THEN /\ bandPc' = "done"
            /\ UNCHANGED <<panInterlaceMap, bandMetadata>>
       ELSE /\ bandPc' = "interlace"
            /\ panInterlaceMap' =
                   IF psImage.Interlace THEN Rep(0, psImage.nRasterYSize) ELSE <<>>
            /\ bandMetadata' =
                   IF psImage.bAdvertiseInterlacedMDI
                   THEN <<[name |-> "INTERLACED",
                           value |-> IF psImage.Interlace THEN YES ELSE W.NO,
                           domain |-> IMAGE_STRUCTURE]>>
                   ELSE <<>>
    /\ UNCHANGED <<psImage, iPass, iMapLine, mapStores, iExtBlock,
                   nTransparentColor, poColorTable>>

\* one turn of "for (int i = 0; i < 4; i++)"
BandInterlacePass ==
    /\ bandPc = "interlace"
    /\ psImage.Interlace
    /\ iPass < 4
    /\ LET after == InterlacePass([map |-> panInterlaceMap, iLine |-> iMapLine,
                                   stores |-> mapStores],
                                  InterlacedOffset[iPass + 1],
                                  InterlacedJumps[iPass + 1], psImage.nRasterYSize)
       IN  /\ panInterlaceMap' = after.map
           /\ iMapLine' = after.iLine
           /\ mapStores' = after.stores
    /\ iPass' = iPass + 1
    /\ UNCHANGED <<psImage, bandPc, iExtBlock, nTransparentColor, poColorTable,
                   bandMetadata>>

\* nTransparentColor = -1 before the loop over the extension blocks
BandTransparencyBegin ==
    /\ bandPc = "interlace"
    /\ ~psImage.Interlace \/ iPass >= 4
    /\ nTransparentColor' = -1
    /\ iExtBlock' = 0
    /\ bandPc' = "transparency"
    /\ UNCHANGED <<psImage, iPass, iMapLine, panInterlaceMap, mapStores,
                   poColorTable, bandMetadata>>

\* one turn of the loop over the extension blocks
BandExtBlock ==
    /\ bandPc = "transparency"
    /\ iExtBlock < Len(psImage.ExtensionBlocks)
    /\ nTransparentColor' =
           TransparentColor(psImage.ExtensionBlocks[iExtBlock + 1], nTransparentColor)
    /\ iExtBlock' = iExtBlock + 1
    /\ UNCHANGED <<psImage, bandPc, iPass, iMapLine, panInterlaceMap, mapStores,
                   poColorTable, bandMetadata>>

\* the colour table and the item GIF_BACKGROUND
BandColorTable ==
    /\ bandPc = "transparency"
    /\ iExtBlock >= Len(psImage.ExtensionBlocks)
    /\ poColorTable' = ColorTable(GifColorMap(psImage), nTransparentColor)
    /\ bandMetadata' =
           IF psImage.nBackground # 255
           THEN Append(bandMetadata,
                       [name |-> "GIF_BACKGROUND",
                        value |-> FormatInt(psImage.nBackground), domain |-> <<>>])
           ELSE bandMetadata
    /\ bandPc' = "done"
    /\ UNCHANGED <<psImage, iPass, iMapLine, panInterlaceMap, mapStores,
                   iExtBlock, nTransparentColor>>

(***************************************************************************)
(* GIFAbstractDataset: GetMetadata, CollectXMPMetadata and the destructor  *)
(***************************************************************************)
XML_XMP == <<"x", "m", "l", ":", "X", "M", "P">>

\* pszDomain == nullptr
NullDomain == <<"(nullptr)">>

\* most requests made of one dataset
MaxRequests == 3

\* the domains asked for
MetadataDomains ==
    {NullDomain, <<>>, XML_XMP, <<"X", "M", "L", ":", "x", "m", "p">>,
     IMAGE_STRUCTURE}

\* the streams of the datasets: one of each kind
MetadataInputs == {in \in ScanInputs : in.off = 2 * ChunkSize - SigLen}

\* what nPamFlags may hold when SetMetadata(apszMDList, "xml:XMP") returns:
\* the flags the dataset can have
PamFlagSets == SUBSET {"GPF_DIRTY", "GPF_NOSAVE"}

\* GDALPamDataset::GetMetadata(pszDomain): the list kept for the domain
PamGetMetadata(pszDomain, list) ==
    [null |-> FALSE,
     list |-> IF pszDomain # NullDomain /\ EQUAL(pszDomain, XML_XMP) THEN list ELSE <<>>]

MdIdle ==
    /\ gifFp = FALSE
    /\ eAccess = "GA_ReadOnly"
    /\ bHasReadXMPMetadata = FALSE
    /\ oMDMD = <<>>
    /\ mdPc = "idle"
    /\ mdRequests = <<>>
    /\ mdAnswers = <<>>
    /\ nScans = 0
    /\ nPamFlags = {}

\* a dataset after its construction and Open: bHasReadXMPMetadata(FALSE),
\* fp on the stream (or nullptr), the decoder somewhere in the stream
InitMetadata ==
    /\ \E in \in MetadataInputs :
          /\ stream = StreamOf(in)
          /\ scanKind = in.kind
          /\ scanBody = BodyOf(in.n)
    /\ startOffset \in {k * StartStride : k \in 0..MaxStartFactor}
    /\ fpOffset = startOffset
    /\ scanPc = "idle"
    /\ nCurOffset = 0
    /\ abyBuffer = [lo |-> Extent(0, 0), hi |-> Extent(0, 0)]
    /\ iStartSearchOffset = 0
    /\ nRead = 0
    /\ pszXMP = <<>>
    /\ nSize = 0
    /\ nLen = 0
    /\ osXMP = <<>>
    /\ allocFailed = FALSE
    /\ gifFp \in BOOLEAN
    /\ eAccess \in {"GA_ReadOnly", "GA_Update"}
    /\ bHasReadXMPMetadata = FALSE
    /\ oMDMD = <<>>
    /\ mdPc = "ready"
    /\ mdRequests = <<>>
    /\ mdAnswers = <<>>
    /\ nScans = 0
    /\ nPamFlags \in {{}, {"GPF_DIRTY"}}

\* GetMetadata(pszDomain) up to its return, or up to the call of
\* GIFCollectXMPMetadata(fp) in CollectXMPMetadata
GetMetadata ==
    /\ mdPc = "ready"
    /\ Len(mdRequests) < MaxRequests
    /\ \E pszDomain \in MetadataDomains :
          /\ mdRequests' = Append(mdRequests, pszDomain)
          /\ IF ~gifFp
             THEN /\ mdAnswers' = Append(mdAnswers, [null |-> TRUE, list |-> <<>>])
                  /\ UNCHANGED <<mdPc, nScans, scanVars>>
             ELSE IF /\ eAccess = "GA_ReadOnly"
                     /\ ~bHasReadXMPMetadata
                     /\ pszDomain # NullDomain
                     /\ EQUAL(pszDomain, XML_XMP)
             THEN /\ mdPc' = "collect"
                  /\ nScans' = nScans + 1
                  /\ scanPc' = "begin"
                  /\ startOffset' = fpOffset
                  /\ osXMP' = <<>>
                  /\ pszXMP' = <<>>
                  /\ allocFailed' = FALSE
                  /\ UNCHANGED <<mdAnswers, stream, scanKind, scanBody, fpOffset,
                                 nCurOffset, abyBuffer, iStartSearchOffset, nRead,
                                 nSize, nLen>>
             ELSE /\ mdAnswers' = Append(mdAnswers, PamGetMetadata(pszDomain, oMDMD))
                  /\ UNCHANGED <<mdPc, nScans, scanVars>>
    /\ UNCHANGED <<gifFp, eAccess, bHasReadXMPMetadata, oMDMD, nPamFlags>>

\* the flags left as SetMetadata set them
KeepPamFlags(nOldPamFlags, nCurrent) == nCurrent

\* nPamFlags = nOldPamFlags
RestorePamFlags(nOldPamFlags, nCurrent) == nOldPamFlags

\* the flag set only when a packet was found
CollectReturnOnSuccess ==
    /\ mdPc = "collect"
    /\ scanPc = "done"
    /\ oMDMD' = IF osXMP # <<>> THEN <<osXMP>> ELSE oMDMD
    /\ bHasReadXMPMetadata' = (osXMP # <<>>)
    /\ IF osXMP # <<>>
       THEN \E nAfterSet \in PamFlagSets :
               nPamFlags' = RestorePamFlags(nPamFlags, nAfterSet)
       ELSE nPamFlags' = nPamFlags
    /\ mdAnswers' = Append(mdAnswers,
                           PamGetMetadata(mdRequests[Len(mdRequests)], oMDMD'))
    /\ mdPc' = "ready"
    /\ scanPc' = "idle"
    /\ UNCHANGED <<gifFp, eAccess, mdRequests, nScans, stream, scanKind, scanBody,
                   startOffset, fpOffset, nCurOffset, abyBuffer,
                   iStartSearchOffset, nRead, pszXMP, nSize, nLen, osXMP,
                   allocFailed>>

\* CollectXMPMetadata after GIFCollectXMPMetadata has returned, and the
\* return of GetMetadata
CollectReturn ==
    /\ mdPc = "collect"
    /\ scanPc = "done"
    /\ oMDMD' = IF osXMP # <<>> THEN <<osXMP>> ELSE oMDMD
    /\ bHasReadXMPMetadata' = TRUE
    /\ IF osXMP # <<>>
       THEN \E nAfterSet \in PamFlagSets :
               nPamFlags' = RestorePamFlags(nPamFlags, nAfterSet)
       ELSE nPamFlags' = nPamFlags
    /\ mdAnswers' = Append(mdAnswers,
                           PamGetMetadata(mdRequests[Len(mdRequests)], oMDMD'))
    /\ mdPc' = "ready"
    /\ scanPc' = "idle"
    /\ UNCHANGED <<gifFp, eAccess, mdRequests, nScans, stream, scanKind, scanBody,
                   startOffset, fpOffset, nCurOffset, abyBuffer,
                   iStartSearchOffset, nRead, pszXMP, nSize, nLen, osXMP,
                   allocFailed>>

\* ~GIFAbstractDataset: VSIFCloseL(fp)
CloseDataset ==
    /\ mdPc = "ready"
    /\ mdPc' = "closed"
    /\ gifFp' = FALSE
    /\ UNCHANGED <<eAccess, bHasReadXMPMetadata, oMDMD, mdRequests, mdAnswers,
                   nScans, nPamFlags, scanVars>>

(***************************************************************************)
(* Specifications                                                          *)
(***************************************************************************)
\* what a scan, a classification, an Open leave alone
ScanFrame == UNCHANGED <<clsVars, openVars, ccVars, bandVars, mdVars>>
ClsFrame == UNCHANGED <<scanVars, openVars, ccVars, bandVars, mdVars>>
OpenFrame == UNCHANGED <<scanVars, clsVars, ccVars, bandVars, mdVars>>
CcFrame == UNCHANGED <<scanVars, clsVars, bandVars, mdVars>>
BandFrame == UNCHANGED <<scanVars, clsVars, openVars, ccVars, mdVars>>
MdFrame == UNCHANGED <<clsVars, openVars, ccVars, bandVars>>

NextScan ==
    \/ ScanBegin /\ ScanFrame
    \/ ScanReadChunk /\ ScanFrame
    \/ ScanGrow /\ ScanFrame
    \/ ScanCheckTrailer /\ ScanFrame
    \/ ScanReturn /\ ScanFrame

\* a scan alone: nothing else is in progress
StartScan == InitScan /\ ClsIdle /\ OpenIdle /\ CcIdle /\ BandIdle /\ MdIdle

SpecScan == StartScan /\ [][NextScan]_vars

NextClassify ==
    \/ ClassifyRow /\ ClsFrame
    \/ ClassifyEmit /\ ClsFrame

\* a classification alone
StartClassify ==
    InitClassify /\ ScanIdle /\ OpenIdle /\ CcIdle /\ BandIdle /\ MdIdle

SpecClassify == StartClassify /\ [][NextClassify]_vars

NextOpen ==
    \/ OpenReadHeader /\ OpenFrame
    \/ OpenCreateBands /\ OpenFrame

\* an Open alone, of a file that is there beforehand
StartOpen == InitOpen /\ ScanIdle /\ ClsIdle /\ CcIdle /\ BandIdle /\ MdIdle

SpecOpen == StartOpen /\ [][NextOpen]_vars

\* CreateCopy ends with GDALOpen of the file it wrote
NextCreateCopy ==
    \/ CcValidate /\ CcFrame
    \/ CcWriteHeader /\ CcFrame
    \/ CcBegin /\ CcFrame
    \/ CcCopyLine /\ CcFrame
    \/ CcFinish /\ CcFrame
    \/ OpenReadHeader /\ OpenFrame
    \/ OpenCreateBands /\ OpenFrame

\* a CreateCopy: the file does not exist beforehand
StartCreateCopy == InitCreateCopy /\ ScanIdle /\ ClsIdle /\ BandIdle /\ MdIdle

SpecCreateCopy == StartCreateCopy /\ [][NextCreateCopy]_vars

NextBand ==
    \/ BandSetup /\ BandFrame
    \/ BandInterlacePass /\ BandFrame
    \/ BandTransparencyBegin /\ BandFrame
    \/ BandExtBlock /\ BandFrame
    \/ BandColorTable /\ BandFrame

\* the construction of one band
StartBand == InitBand /\ ScanIdle /\ ClsIdle /\ OpenIdle /\ CcIdle /\ MdIdle

SpecBand == StartBand /\ [][NextBand]_vars

\* the requests made of one dataset, the scan running inside the first
\* request that asks for it
NextMetadata ==
    \/ GetMetadata /\ MdFrame
    \/ ScanBegin /\ ScanFrame
    \/ ScanReadChunk /\ ScanFrame
    \/ ScanGrow /\ ScanFrame
    \/ ScanCheckTrailer /\ ScanFrame
    \/ ScanReturn /\ ScanFrame
    \/ CollectReturn /\ MdFrame
    \/ CloseDataset /\ MdFrame

StartMetadata == InitMetadata /\ ClsIdle /\ OpenIdle /\ CcIdle /\ BandIdle

SpecMetadata == StartMetadata /\ [][NextMetadata]_vars


(***************************************************************************)
(* Properties of GIFCollectXMPMetadata, checked under SpecScan             *)
(***************************************************************************)
\* C1: whatever the stream holds, wherever fp stood when the scanner was
\* called and however the scan ended (packet found, none found, allocation
\* failure, short read), fp stands after the return where it stood before.
C1_PositionRestored == scanPc = "done" => fpOffset = startOffset

\* a scan called with fp away from the start that ended on a failed
\* allocation and has returned
C1_Witness ==
    /\ scanPc = "done"
    /\ allocFailed
    /\ startOffset > 0
    /\ fpOffset = startOffset

\* C2: a signature followed by a well-formed payload is found wherever it
\* lies in the stream, across the boundary of two reads too: the packet
\* returned is the embedded one; the first pass searches from buffer offset
\* 1024, every later pass from 0 with the chunk read before kept in
\* abyBuffer[0..1023].
C2_SignatureFound ==
    /\ scanPc = "done" /\ scanKind = "packet" /\ ~allocFailed => osXMP = scanBody
    /\ scanPc = "read" => iStartSearchOffset = IF fpOffset = 0 THEN ChunkSize ELSE 0
    /\ scanPc = "read" /\ fpOffset > 0 =>
           abyBuffer.lo = Extent(fpOffset - ChunkSize, ChunkSize)

\* the signature at bytes 1023..1036, its packet returned
C2_Witness ==
    /\ scanPc = "done"
    /\ scanKind = "packet"
    /\ stream[1].n = ChunkSize - 1
    /\ Len(osXMP) > 0
    /\ osXMP = scanBody

(***************************************************************************)
(* Properties of Open, checked under SpecOpen                              *)
(***************************************************************************)
\* C3: when Open gives a dataset, the fields at offsets 0 and 4 of the
\* header are both 20 or 21, and the band count is 5, 7, 8 or 10 as the two
\* say: (20, 20) -> 5, (20, 21) -> 7, (21, 20) -> 8, (21, 21) -> 10.
C3_FlagsFixBandCount ==
    poDS.ok =>
        /\ ReadInt32(lcpFile, 0) \in {20, 21}
        /\ ReadInt32(lcpFile, 4) \in {20, 21}
        /\ poDS.nBands =
               (CASE ReadInt32(lcpFile, 0) = 20 /\ ReadInt32(lcpFile, 4) = 20 -> 5
                  [] ReadInt32(lcpFile, 0) = 20 /\ ReadInt32(lcpFile, 4) = 21 -> 7
                  [] ReadInt32(lcpFile, 0) = 21 /\ ReadInt32(lcpFile, 4) = 20 -> 8
                  [] ReadInt32(lcpFile, 0) = 21 /\ ReadInt32(lcpFile, 4) = 21 -> 10
                  [] OTHER -> 0)

\* a header without crown fuels and with ground fuels, opened with 7 bands
C3_Witness ==
    /\ openPc = "done"
    /\ poDS.ok
    /\ ReadInt32(lcpFile, 0) = 20
    /\ ReadInt32(lcpFile, 4) = 21
    /\ poDS.nBands = 7

\* C21: every header Open accepts is 7316 bytes or longer, declares a width
\* and a height of 1 or more, and a width w with w * (2 * band count) <=
\* INT_MAX: the pixel stride 2 * band count and the line stride handed to the
\* bands are the products themselves, not wrapped to 32 bits (the line
\* stride is positive and, divided by the pixel stride, gives w exactly).
C21_NoRowOverflow ==
    poDS.ok =>
        /\ lcpFile.len >= LCP_HEADER_SIZE
        /\ ReadInt32(lcpFile, 4164) >= 1
        /\ ReadInt32(lcpFile, 4168) >= 1
        /\ ReadInt32(lcpFile, 4164) <= INT_MAX \div (2 * poDS.nBands)
        /\ poDS.iPixelSize = 2 * poDS.nBands
        /\ poDS.nLineOffset > 0
        /\ poDS.nLineOffset % poDS.iPixelSize = 0
        /\ poDS.nLineOffset \div poDS.iPixelSize = ReadInt32(lcpFile, 4164)

\* a header of 10 bands opened with the largest width that fits, while the
\* width one above it was refused
C21_Witness ==
    /\ openPc = "done"
    /\ poDS.ok
    /\ poDS.nBands = 10
    /\ poDS.nRasterXSize = INT_MAX \div 20
    /\ poDS.nLineOffset = 20 * (INT_MAX \div 20)
    /\ ~OpenHeader([lcpFile EXCEPT !.cells[4164].v = <<(INT_MAX \div 20) + 1>>],
                   openInfo).ok

\* the header offsets of the 100 class slots of band 4
FuelModelSlotOffsets == {1292 + 4 * i : i \in 0..(LCP_MAX_CLASSES - 1)}

\* C29: whatever class count the header holds at 1288, the entries Open
\* reads for FUEL_MODEL_VALUES are class slots of band 4 (offsets 1292 to
\* 1691), so every value listed is the content of one of them and none is a
\* field of band 5; a count outside 1..100 gives an empty list.
C29_FuelModelReadsOwnSlots ==
    openPc = "done" /\ poDS.ok =>
        LET nTemp == ReadInt32(lcpFile, 1288)
            reads == FuelModelReads(lcpFile)
            values == poDS.bands[4].values
        IN  /\ \A k \in 1..Len(reads) : reads[k] \in FuelModelSlotOffsets
            /\ \A k \in 1..Len(values) :
                   \E pos \in FuelModelSlotOffsets :
                       values[k] = FormatInt(ReadInt32(lcpFile, pos))
            /\ nTemp < 1 \/ nTemp > 100 => values = <<>>

(***************************************************************************)
(* Properties of CreateCopy, checked under SpecCreateCopy                  *)
(***************************************************************************)
\* CreateCopy has written the file and Open has given a dataset for it
Reopened == ccPc = "reopen" /\ openPc = "done" /\ poDS.ok

\* the entry of panMetadata (from 0) that holds the code of a unit item
UnitSlot(key) ==
    CASE key = "ELEVATION_UNIT" -> 0
      [] key = "SLOPE_UNIT" -> 1
      [] key = "ASPECT_UNIT" -> 2
      [] key = "FUEL_MODEL_OPTION" -> 3
      [] key = "CANOPY_COV_UNIT" -> 4
      [] key = "CANOPY_HT_UNIT" -> 5
      [] key = "CBH_UNIT" -> 6
      [] key = "CBD_UNIT" -> 7
      [] key = "DUFF_UNIT" -> 8
      [] key = "CWD_OPTION" -> 9

\* C4: for a source of 5, 7, 8 or 10 bands and valid unit options, Open and
\* GetGeoTransform on the file CreateCopy wrote give back the two flags (so
\* the band count), the extent (west, east, north, south), the cell size
\* and, for every band, the unit code CreateCopy encoded.
C4_RoundTrip ==
    Reopened =>
        /\ poDS.bHaveCrownFuels = ccLocals.bHaveCrownFuels
        /\ poDS.bHaveGroundFuels = ccLocals.bHaveGroundFuels
        /\ poDS.nBands = call.nBands
        /\ GetGeoTransform(lcpFile)[1] = call.srcGT[1]
        /\ ReadDouble(lcpFile, 4172) = call.srcGT[1] + call.srcGT[2] * call.nXSize
        /\ GetGeoTransform(lcpFile)[4] = call.srcGT[4]
        /\ ReadDouble(lcpFile, 4196) = call.srcGT[4] + call.srcGT[6] * call.nYSize
        /\ GetGeoTransform(lcpFile)[2] = call.srcGT[2]
        /\ GetGeoTransform(lcpFile)[6] =
               IF call.srcGT[6] < 0 THEN call.srcGT[6] ELSE -call.srcGT[6]
        /\ \A i \in 1..call.nBands :
               atoi(poDS.bands[i].unit)
                   = ccLocals.panMetadata[UnitSlot(poDS.bands[i].unitKey) + 1]

\* a copy of 7 bands with DUFF_UNIT=TONS_PER_ACRE_X_10 read back: code 2 for
\* band 6
C4_Witness ==
    /\ Reopened
    /\ call.nBands = 7
    /\ call.DUFF_UNIT = W.TONS_PER_ACRE_X_10
    /\ poDS.bands[6].unitKey = "DUFF_UNIT"
    /\ atoi(poDS.bands[6].unit) = 2
    /\ GetGeoTransform(lcpFile)[1] = call.srcGT[1]

\* C5: CreateCopy gives no dataset for a source whose band count is none of
\* 5, 7, 8, 10 (it returns before the file is created), and the flags
\* written for an accepted count are crown = (8 or 10), ground = (7 or 10).
C5_BandCount ==
    /\ call.nBands \notin {5, 7, 8, 10} =>
           /\ ccPc \in {"validate", "failed"}
           /\ lcpFile = EmptyFile
           /\ ~fpOpen
           /\ ~poDS.ok
    /\ lcpFile # EmptyFile =>
           /\ ReadInt32(lcpFile, 0) = IF call.nBands \in {8, 10} THEN 21 ELSE 20
           /\ ReadInt32(lcpFile, 4) = IF call.nBands \in {7, 10} THEN 21 ELSE 20

\* a source of 6 bands refused
C5_Witness ==
    /\ ccPc = "failed"
    /\ call.nBands = 6
    /\ lcpFile = EmptyFile

\* C9: without the LATITUDE option, CreateCopy fails, strict or not, when
\* the source has no spatial reference, when the transformation cannot be
\* created or when the transformation of the centre fails; nothing is
\* written then.
C9_LatitudeFatal ==
    /\ call.LATITUDE = Absent
    /\ \/ ~call.poSrcSRS
       \/ ~call.poCT
       \/ ~call.bTransformed
    => ccPc \in {"validate", "failed"} /\ lcpFile = EmptyFile

\* the options that name a unit
UnitOptionKeys ==
    {"ELEVATION_UNIT", "SLOPE_UNIT", "ASPECT_UNIT", "FUEL_MODEL_OPTION",
     "CANOPY_COV_UNIT", "CANOPY_HT_UNIT", "CBH_UNIT", "CBD_UNIT", "DUFF_UNIT",
     "LINEAR_UNIT"}

\* C10: CreateCopy fails when a unit option is given a value that none of
\* its codes stands for, whichever of the ten unit options it is and
\* whatever the accepted band count.
C10_UnmatchedUnitFatal ==
    (\E key \in UnitOptionKeys : call[key] = Bogus)
    => ccPc \in {"validate", "failed"} /\ lcpFile = EmptyFile

(***************************************************************************)
(* Properties of ClassifyBandData, checked under SpecClassify              *)
(***************************************************************************)
\* the pixel values of the band other than the no-data value -9999
BandValues ==
    {clsBand[r][c] : r \in 1..Len(clsBand), c \in 1..Len(clsBand[1])} \ {-9999}

\* ClassifyBandData has returned and every RasterIO went well
ClsReturned == clsPc = "done" /\ eErr = "CE_None"

\* the entries stored after the leading zero, in the order of their index
ClassEntries == [k \in 1..(Len(panWrites) - 1) |-> panWrites[k + 1].v]

\* C6: the count is -1 when the band holds more than 99 distinct values
\* other than -9999, and is from 0 to 99 else; it is never 100 or more.
C6_Cap ==
    ClsReturned =>
        /\ Cardinality(BandValues) > 99 => nNumClasses = -1
        /\ Cardinality(BandValues) <= 99 => nNumClasses \in 0..99
        /\ nNumClasses < 100

\* C7: for a band of d <= 99 distinct values other than -9999 the count is
\* d and d entries follow the leading zero, at the indices 1..d; -9999
\* counts for nothing, so a band of -9999 alone gives 0 and the zero only.
C7_CountIsDistinct ==
    ClsReturned /\ Cardinality(BandValues) <= 99 =>
        /\ nNumClasses = Cardinality(BandValues)
        /\ Len(panWrites) = Cardinality(BandValues) + 1
        /\ panWrites[1] = [i |-> 0, v |-> 0]
        /\ \A k \in 1..Len(panWrites) : panWrites[k].i = k - 1

\* a band of 99 distinct values and pixels of -9999 classified: count 99
C7_Witness ==
    /\ ClsReturned
    /\ Cardinality(BandValues) = 99
    /\ \E r \in 1..Len(clsBand) : \E c \in 1..Len(clsBand[1]) : clsBand[r][c] = -9999
    /\ nNumClasses = 99
    /\ Len(panWrites) = 100

\* C8: unless "too many" is reported, the entries after the leading zero
\* are the distinct pixel values other than -9999, as the signed 16-bit
\* values they are in the band, each once, in strictly ascending order.
C8_EntriesAreValues ==
    ClsReturned /\ ~bTooMany =>
        /\ {ClassEntries[k] : k \in 1..Len(ClassEntries)} = BandValues
        /\ \A k \in 1..(Len(ClassEntries) - 1) : ClassEntries[k] < ClassEntries[k + 1]

(***************************************************************************)
(* Properties of CreateCopy on the linear unit, the two modes, the order   *)
(* of checks and file creation, progress and failures of the streams,      *)
(* checked under SpecCreateCopy                                            *)
(***************************************************************************)
\* a unit name of the spatial reference that CreateCopy knows
KnownUnitName(u) ==
    \/ EQUAL(u, W.METER) \/ EQUAL(u, <<"m", "e", "t", "r", "e">>)
    \/ EQUAL(u, W.FEET) \/ EQUAL(u, W.FOOT)
    \/ STARTS_WITH_CI(u, <<"k", "i", "l", "o", "m", "e", "t">>)

\* LINEAR_UNIT is not given and the spatial reference does not tell the unit
LinearUnitUndetermined ==
    /\ call.LINEAR_UNIT = Absent
    /\ \/ ~call.poSrcSRS
       \/ call.pszUnit = Absent
       \/ ~KnownUnitName(call.pszUnit)

\* LINEAR_UNIT is not given and the unit of the spatial reference has a
\* scale other than 1.0
UnitScaleNotOne ==
    /\ call.LINEAR_UNIT = Absent
    /\ call.poSrcSRS
    /\ call.pszUnit # Absent
    /\ call.pszUnitScale # Absent
    /\ CPLAtof(call.pszUnitScale) # Dbl(1)

\* offset of the linear unit code in the header
LinearUnitOffset == 4204

\* C11: with LINEAR_UNIT not given and the linear unit not to be had from
\* the spatial reference (none, no UNIT node, unknown unit name), or with
\* a unit scale other than 1.0, CreateCopy fails in strict mode; in
\* non-strict mode it passes the checks (when the same call with the unit
\* given passes them) and an undetermined unit is written as code 0.
C11_LinearUnit ==
    /\ (LinearUnitUndetermined \/ UnitScaleNotOne) /\ call.bStrict =>
           ccPc \in {"validate", "failed"} /\ lcpFile = EmptyFile
    /\ /\ LinearUnitUndetermined \/ UnitScaleNotOne
       /\ ~call.bStrict
       /\ ccPc # "validate"
       /\ Validate([call EXCEPT !.LINEAR_UNIT = W.METER]).ok
       => /\ ccLocals.ok
          /\ LinearUnitUndetermined /\ lcpFile # EmptyFile =>
                 ReadInt32(lcpFile, LinearUnitOffset) = 0

\* the call made in the mode b
InMode(b) == [call EXCEPT !.bStrict = b]

\* the header CreateCopy writes for the call made in the mode b
HeaderInMode(b) ==
    WriteHeader(InMode(b), Validate(InMode(b)),
                Statistics(InMode(b), Validate(InMode(b)))).f

\* C12: a call accepted in strict mode is accepted in non-strict mode and
\* the header written is the same byte for byte; the checks of the two
\* modes give different verdicts only when the source type is not Int16,
\* the linear unit is not given and not determined, or the unit scale is
\* not 1.0.
C12_StrictVersusLenient ==
    ccPc # "validate" =>
        /\ ccLocals = Validate(call)
        /\ Validate(InMode(TRUE)).ok => Validate(InMode(FALSE)).ok
        /\ Validate(InMode(TRUE)).ok /\ ccPc = "begin" =>
               /\ lcpFile = HeaderInMode(~call.bStrict)
               /\ lcpFile = HeaderInMode(call.bStrict)
        /\ Validate(InMode(TRUE)).ok # Validate(InMode(FALSE)).ok =>
               \/ call.eType # "GDT_Int16"
               \/ LinearUnitUndetermined
               \/ UnitScaleNotOne

\* a strict call with a spatial reference in feet, its header written with
\* linear unit code 1
C12_Witness ==
    /\ ccPc = "begin"
    /\ call.bStrict
    /\ call.pszUnit = <<"F", "o", "o", "t">>
    /\ ReadInt32(lcpFile, LinearUnitOffset) = 1
    /\ lcpFile = HeaderInMode(FALSE)

\* C13: when a check of the input fails (band count, type in strict mode,
\* a unit option, the range of LATITUDE, the latitude from the spatial
\* reference, the linear unit, the unit scale), the output file has not
\* been created, no byte of it written and no progress reported.
C13_ChecksBeforeCreation ==
    ccPc = "failed" /\ ~ccLocals.ok =>
        /\ lcpFile = EmptyFile
        /\ ~fpOpen
        /\ fpPos = 0
        /\ ccTells = <<>>
        /\ ccProgress = <<>>

\* a call refused for its LATITUDE of 91
C13_Witness ==
    /\ ccPc = "failed"
    /\ ~ccLocals.ok
    /\ call.LATITUDE = <<"9", "1">>
    /\ lcpFile = EmptyFile
    /\ ~fpOpen

\* C14: pfnProgress is called with 0.0 before the first line, once after
\* each line written with a fraction in [0, 1] that never decreases, and
\* with 1.0 at the end; at the call that answers cancel CreateCopy stops:
\* the handle is closed, panScanline freed, no dataset is returned, and
\* nothing is written to the file from then on.
C14_Progress ==
    /\ [](/\ Len(ccProgress) > 0 => ccProgress[1] = <<0, 1>>
          /\ \A k \in 1..Len(ccProgress) :
                 /\ ccProgress[k][2] > 0
                 /\ 0 <= ccProgress[k][1]
                 /\ ccProgress[k][1] <= ccProgress[k][2]
          /\ \A k \in 1..(Len(ccProgress) - 1) :
                 ccProgress[k][1] * ccProgress[k + 1][2]
                     <= ccProgress[k + 1][1] * ccProgress[k][2]
          /\ ccPc = "lines" =>
                 /\ Len(ccProgress) = ccLine + 1
                 /\ ccLine > 0 => ccProgress[ccLine + 1] = <<ccLine - 1, call.nYSize>>
          /\ ccPc = "reopen" =>
                 /\ Len(ccProgress) = call.nYSize + 2
                 /\ ccProgress[Len(ccProgress)] = <<1, 1>>
          /\ call.nCancelAt > 0 /\ Len(ccProgress) >= call.nCancelAt =>
                 /\ Len(ccProgress) = call.nCancelAt
                 /\ ccPc = "failed"
                 /\ ~fpOpen
                 /\ panScanline = "freed"
                 /\ openPc = "idle"
                 /\ ~poDS.ok)
    /\ [][ccPc = "failed" => lcpFile' = lcpFile /\ ccPc' = "failed"]_vars

\* cancelled at the call after the first line: one line is in the file
C14_Witness ==
    /\ ccPc = "failed"
    /\ call.nCancelAt = 2
    /\ ccProgress = <<<<0, 1>>, <<0, call.nYSize>>>>
    /\ lcpFile.len = LCP_HEADER_SIZE + 2 * call.nBands * call.nXSize
    /\ ~fpOpen
    /\ panScanline = "freed"

\* C15: when the RasterIO of a line fails while a band is classified or
\* while the pixels are copied, or a write to the output fails, CreateCopy
\* ends in failure and returns no dataset.
C15_StreamFailure ==
    \/ /\ call.classifyFail # {}
       /\ ccLocals.ok /\ ccLocals.bClassifyData
       /\ ccPc \notin {"validate", "header"}
    \/ \E l \in call.copyFail : ccLine > l
    \/ \E l \in call.writeFail : ccLine > l
    => ccPc = "failed"

(***************************************************************************)
(* Properties of the constructor of GIFAbstractRasterBand, checked under   *)
(* SpecBand                                                                *)
(***************************************************************************)
\* the extension blocks that are graphic control extensions of at least 4
\* bytes with the transparency flag set
FlaggedBlocks ==
    {k \in 1..Len(psImage.ExtensionBlocks) :
        /\ psImage.ExtensionBlocks[k].Function = 249
        /\ psImage.ExtensionBlocks[k].ByteCount >= 4
        /\ psImage.ExtensionBlocks[k].Bytes[1] % 2 = 1}

\* the colour index named by the last of them, -1 when there is none
LastNamedColor ==
    IF FlaggedBlocks = {} THEN -1
    ELSE psImage.ExtensionBlocks[CHOOSE k \in FlaggedBlocks :
                                     \A m \in FlaggedBlocks : m <= k].Bytes[4]

InterlacedDone(h) ==
    /\ bandPc = "done"
    /\ ~psImage.null
    /\ psImage.Interlace
    /\ psImage.nRasterYSize = h

\* C17 as stated: for height 8 storage index 0 goes to row 0, index 1 to
\* row 4, index 2 to row 2 and index 3 to row 1.
C17_AsStated ==
    InterlacedDone(8) =>
        /\ panInterlaceMap[0 + 1] = 0
        /\ panInterlaceMap[4 + 1] = 1
        /\ panInterlaceMap[2 + 1] = 2
        /\ panInterlaceMap[1 + 1] = 3

\* C17: for an interlaced image of height 8 the map built with the pass
\* offsets {0,4,2,1} and the strides {8,8,4,2} gives storage index 0 to
\* row 0, 1 to row 4, 2 to row 2, 3 to row 6, and 4, 5, 6, 7 to the rows
\* 1, 3, 5, 7.
C17_MapOfEight ==
    InterlacedDone(8) => panInterlaceMap = <<0, 4, 2, 5, 1, 6, 3, 7>>

\* the map of height 8 built: row 6 holds index 3 and row 1 index 4
C17_Witness ==
    /\ InterlacedDone(8)
    /\ panInterlaceMap[6 + 1] = 3
    /\ panInterlaceMap[1 + 1] = 4

\* C18: for every height H >= 1 the map of an interlaced image is a
\* permutation of 0..H-1: every row is stored into exactly once, by one
\* pass, and the indices given are 0..H-1 in the order of the stores.
C18_MapIsPermutation ==
    \A h \in 1..MaxHeight :
        InterlacedDone(h) =>
            /\ Len(panInterlaceMap) = h
            /\ Len(mapStores) = h
            /\ \A j \in 0..(h - 1) :
                   Cardinality({k \in 1..Len(mapStores) : mapStores[k] = j}) = 1
            /\ {panInterlaceMap[j] : j \in 1..h} = 0..(h - 1)
            /\ \A k \in 1..h : panInterlaceMap[mapStores[k] + 1] = k - 1

\* a height that is no multiple of 8, all four passes made
C18_Witness ==
    /\ InterlacedDone(13)
    /\ iPass = 4
    /\ iMapLine = 13
    /\ panInterlaceMap[12 + 1] = 3

(***************************************************************************)
(* The result of GIFCollectXMPMetadata, checked under SpecScan             *)
(***************************************************************************)
\* where the first signature of the stream starts, -1 when it has none
\* (the segments other than "sig" hold no signature)
RECURSIVE FirstSigFrom(_, _, _)
FirstSigFrom(s, i, at) ==
    IF i > Len(s) THEN -1
    ELSE IF s[i].k = "sig" THEN at
    ELSE FirstSigFrom(s, i + 1, at + s[i].n)

HasSignature == FirstSigFrom(stream, 1, 0) >= 0

\* the offset of the byte after the first signature
PayloadStart == FirstSigFrom(stream, 1, 0) + SigLen

\* the offset of the first NUL byte after the signature, or the length of
\* the stream when there is none
PayloadEnd ==
    LET nuls == {i \in PayloadStart..(StreamLen(stream) - 1) : ByteAt(stream, i) = 0}
    IN  IF nuls = {} THEN StreamLen(stream)
        ELSE CHOOSE i \in nuls : \A j \in nuls : i <= j

\* the bytes lo..hi-1 of the stream number more than 256 and end with
\* 0x01 at -256, 0xff at -255, 0x02 at -2, 0x01 at -1
EndsWithTrailer(lo, hi) ==
    /\ hi - lo > TrailerLen
    /\ ByteAt(stream, hi - 256) = 1
    /\ ByteAt(stream, hi - 255) = 255
    /\ ByteAt(stream, hi - 2) = 2
    /\ ByteAt(stream, hi - 1) = 1

\* the bytes lo..hi-1 without their last 256 when they end with the
\* trailer, nothing otherwise
PacketOf(lo, hi) ==
    IF EndsWithTrailer(lo, hi)
    THEN [i \in 1..(hi - lo - TrailerLen) |-> ByteAt(stream, lo + i - 1)]
    ELSE <<>>

\* C19 as stated: the packet is returned exactly when the bytes from the
\* first signature to the first NUL (or the end of the stream) end with the
\* trailer; after an allocation failure the result is always empty.
C19_AsStated ==
    scanPc = "done" =>
        osXMP = IF HasSignature /\ ~allocFailed
                THEN PacketOf(PayloadStart, PayloadEnd)
                ELSE <<>>

\* C19: the scan returns the bytes between the end of the first signature
\* and the start of the trailer exactly when the bytes collected after the
\* signature - up to the first NUL or the end of the stream, or up to the
\* chunk at which enlarging the buffer failed - number more than 256 and
\* end with the trailer pattern; with no signature, with a failure of the
\* first allocation and with the trailer absent it returns an empty packet.
C19_ScanResult ==
    scanPc = "done" =>
        osXMP = IF ~HasSignature THEN <<>>
                ELSE IF ~allocFailed THEN PacketOf(PayloadStart, PayloadEnd)
                ELSE IF nSize = 0 THEN <<>>
                ELSE PacketOf(PayloadStart, PayloadStart + nSize)

\* the buffer could not be enlarged when the bytes collected ended with the
\* trailer pattern, and these were returned
C19_Witness ==
    /\ scanPc = "done"
    /\ scanKind = "decoy"
    /\ allocFailed
    /\ nSize = TrailerLen + 1
    /\ osXMP = BodyOf(1)

\* C26: when the bytes collected after a signature are not a terminated
\* packet (the trailer pattern with no more than 256 bytes in all, or no
\* trailer), they are not returned and the scan goes on: the well-formed
\* packet that follows later in the stream is the one returned.
C26_LaterPacketFound ==
    scanPc = "done" /\ scanKind \in {"shortfirst", "unendedfirst"} /\ ~allocFailed =>
        osXMP = scanBody

(***************************************************************************)
(* Properties of GetMetadata, checked under SpecMetadata                   *)
(***************************************************************************)
\* the request being served asks for the domain xml:XMP
AsksForXMP(requests) ==
    /\ requests # <<>>
    /\ requests[Len(requests)] # NullDomain
    /\ EQUAL(requests[Len(requests)], XML_XMP)

\* C20: over the requests made of one dataset the stream is scanned only
\* inside a request for the domain xml:XMP made of a read-only dataset
\* whose file is open, and at most once: fp moves only during that scan,
\* and once the scan has been made the list kept for xml:XMP stays as it
\* is and every later request for it is answered with that list.
C20_ScannedOnce ==
    /\ [](/\ nScans <= 1
          /\ scanPc # "idle" => mdPc = "collect" /\ nScans = 1
          /\ nScans = 1 /\ mdPc # "collect" => bHasReadXMPMetadata
          /\ mdPc # "collect" => fpOffset = startOffset
          /\ \A k \in 1..Len(mdAnswers) :
                 bHasReadXMPMetadata /\ ~mdAnswers[k].null /\ AsksForXMP(SubSeq(mdRequests, 1, k))
                     => mdAnswers[k].list = oMDMD)
    /\ [][/\ nScans' # nScans =>
                /\ nScans = 0
                /\ gifFp
                /\ eAccess = "GA_ReadOnly"
                /\ AsksForXMP(mdRequests')
          /\ fpOffset' # fpOffset => mdPc = "collect"
          /\ bHasReadXMPMetadata =>
                /\ bHasReadXMPMetadata'
                /\ oMDMD' = oMDMD
                /\ UNCHANGED scanVars]_vars

\* three requests for xml:XMP, one scan, the packet found given each time
C20_Witness ==
    /\ Len(mdAnswers) = 3
    /\ \A k \in 1..3 : EQUAL(mdRequests[k], XML_XMP)
    /\ nScans = 1
    /\ oMDMD = <<scanBody>>
    /\ scanBody # <<>>
    /\ \A k \in 1..3 : mdAnswers[k].list = oMDMD

\* C30: over a call of CollectXMPMetadata, from its start in GetMetadata to
\* its return, with a packet found and stored in the domain xml:XMP or with
\* none, nPamFlags is after every step what it was before.
C30_PamFlagsKept ==
    [][mdPc = "collect" \/ mdPc' = "collect" => nPamFlags' = nPamFlags]_vars

\* a dataset whose flags were clear before the packet was found, which now
\* has it stored for xml:XMP and its flags still clear
C30_Witness ==
    /\ mdPc = "ready"
    /\ bHasReadXMPMetadata
    /\ nScans = 1
    /\ osXMP # <<>>
    /\ oMDMD = <<osXMP>>
    /\ nPamFlags = {}

(***************************************************************************)
(* Property of the stores of ClassifyBandData, checked under SpecClassify  *)
(***************************************************************************)
\* C27: whatever the band holds and in whatever order, every store of
\* ClassifyBandData into panClasses is at an index from 0 to 99, inside the
\* 100 entries CreateCopy gives the band in its class buffer.
C27_StoresWithinArray ==
    \A k \in 1..Len(panWrites) :
        panWrites[k].i >= 0 /\ panWrites[k].i <= LCP_MAX_CLASSES - 1

(***************************************************************************)
(* Properties of the header CreateCopy writes, checked under               *)
(* SpecCreateCopy                                                          *)
(***************************************************************************)
\* the header has been written: ccTells holds what the three VSIFTellL of
\* the CPLAssert gave, in order
HeaderWritten == ccTells # <<>>

\* C22: for every accepted band count and every combination of
\* CALCULATE_STATS, CLASSIFY_DATA and a source with or without file list,
\* the handle stands at 2104, 3340 or 4164 after the statistics, at 5524,
\* 6292 or 6804 after the file names, and at or below 7316 after the
\* description.
C22_CursorAsserted ==
    HeaderWritten =>
        /\ Len(ccTells) = 3
        /\ ccTells[1] \in {2104, 3340, 4164}
        /\ ccTells[2] \in {5524, 6292, 6804}
        /\ ccTells[3] <= LCP_HEADER_SIZE

\* C28: a LATITUDE option of an integer n from -90 to 90 gives a header
\* whose field at offset 8 is n, and Open gives LATITUDE = n for it; a value
\* below -90 or above 90 makes CreateCopy fail before it writes.
C28_LatitudeWritten ==
    call.LATITUDE # Absent =>
        LET n == atoi(call.LATITUDE)
        IN  /\ n < -90 \/ n > 90 => ccPc \in {"validate", "failed"} /\ lcpFile = EmptyFile
            /\ n >= -90 /\ n <= 90 /\ HeaderWritten => ReadInt32(lcpFile, 8) = n
            /\ n >= -90 /\ n <= 90 /\ Reopened => atoi(poDS.LATITUDE) = n

\* the bytes of the header that hold the ten slots of the file names
PathSlotsWritten == Overlapping(lcpFile, 4244, 10 * LCP_MAX_PATH)

\* C23: for each accepted band count and each band k, the path CreateCopy
\* writes for band k is what Open gives as the *_FILE item of band k (with 7
\* bands the paths of bands 6 and 7 are in the slots at 6292 and 6548); from
\* a source without file list no byte of a path slot is written.
C23_PathSlots ==
    Reopened =>
        IF call.papszFileList # <<>>
        THEN /\ \A k \in 1..call.nBands :
                    poDS.bands[k].file = Strn(call.papszFileList[1], LCP_MAX_PATH - 1)
             /\ call.nBands = 7 => PathSlotsWritten = {4244 + 256 * i : i \in {0, 1, 2, 3, 4, 8, 9}}
        ELSE PathSlotsWritten = {}

\* the minimum, the maximum and the class count CreateCopy writes for each
\* band (from 1) when it writes statistics
StatsWritten ==
    LET st == Statistics(call, ccLocals)
    IN  [k \in 1..call.nBands |->
            [min |-> ToInt32(st.padfMin[k]),
             max |-> ToInt32(st.padfMax[k]),
             numClasses |-> IF ccLocals.bClassifyData THEN st.panFound[k] ELSE -1]]

\* C24: when statistics are written, for each accepted band count and each
\* band k the minimum, maximum and class count written for band k are what
\* Open gives as *_MIN, *_MAX and *_NUM_CLASSES of band k; with 7 bands the
\* records of bands 6 and 7 are at 3340 and 3752 and nothing is stored in
\* the region of the crown fuels.
C24_StatsRoundTrip ==
    Reopened /\ ccLocals.bCalculateStats =>
        LET written == StatsWritten
        IN  /\ \A k \in 1..call.nBands :
                   /\ atoi(poDS.bands[k].min) = written[k].min
                   /\ atoi(poDS.bands[k].max) = written[k].max
                   /\ atoi(poDS.bands[k].numClasses) = written[k].numClasses
            /\ call.nBands = 7 =>
                   /\ ReadInt32(lcpFile, 3340) = written[6].min
                   /\ ReadInt32(lcpFile, 3752) = written[7].min
                   /\ Overlapping(lcpFile, 2104, 3340 - 2104) = {}

\* a copy of 7 bands with statistics and classes opened again: DUFF_MIN is
\* the minimum 61 of band 6 and DUFF_NUM_CLASSES its 4 values, CWD_MAX the
\* maximum 74 of band 7
C24_Witness ==
    /\ Reopened
    /\ call.nBands = 7
    /\ ccLocals.bCalculateStats
    /\ ccLocals.bClassifyData
    /\ call.nFirstPixel = 0 /\ call.nXSize = 2 /\ call.nYSize = 2
    /\ call.statsFail = {} /\ call.classifyFail = {}
    /\ poDS.bands[6].prefix = "DUFF"
    /\ atoi(poDS.bands[6].min) = 61
    /\ atoi(poDS.bands[6].numClasses) = 4
    /\ poDS.bands[7].prefix = "CWD"
    /\ atoi(poDS.bands[7].max) = 74

\* where the record of band k (from 1) begins in the header
StatsOffset(k) ==
    IF call.nBands = 7 /\ k >= 6 THEN 3340 + 412 * (k - 6) ELSE 44 + 412 * (k - 1)

\* where the handle is after the turn of band k of the loop over the
\* statistics, begun with the handle at the record of band k; v is
\* ccLocals or ccLocals with another bClassifyData, st the statistics
AfterStatsTurn(v, st, k) ==
    LET calls == WriteStats(v, st, k - 1)
    IN  RunRange(calls, 1, Len(calls), StatsOffset(k)).pos

\* C25: with statistics and without classification the record of each band
\* is its minimum, its maximum and -1, the 400 bytes of the class slots
\* after them are not written, and the handle is moved past them: each turn
\* moves it by 412 bytes, as the turn that writes the classes does.
C25_UnclassifiedRecord ==
    HeaderWritten /\ ccLocals.bCalculateStats /\ ~ccLocals.bClassifyData =>
        LET written == StatsWritten
            classified == [ccLocals EXCEPT !.bClassifyData = TRUE]
            st == Statistics(call, ccLocals)
            stClassified == Statistics(call, classified)
        IN  /\ \A k \in 1..call.nBands :
                   /\ ReadInt32(lcpFile, StatsOffset(k)) = written[k].min
                   /\ ReadInt32(lcpFile, StatsOffset(k) + 4) = written[k].max
                   /\ ReadInt32(lcpFile, StatsOffset(k) + 8) = -1
                   /\ Overlapping(lcpFile, StatsOffset(k) + 12, 4 * LCP_MAX_CLASSES) = {}
                   /\ AfterStatsTurn(ccLocals, st, k) = StatsOffset(k) + 412
                   /\ AfterStatsTurn(classified, stClassified, k)
                          = AfterStatsTurn(ccLocals, st, k)
            /\ ccTells[1] = StatsOffset(call.nBands) + 412

\* a header of 10 bands written with CLASSIFY_DATA=NO: band 1 has minimum
\* 11, maximum 14 and count -1, and the handle ends the statistics at 4164
C25_Witness ==
    /\ HeaderWritten
    /\ call.nBands = 10
    /\ ccLocals.bCalculateStats
    /\ ~ccLocals.bClassifyData
    /\ ReadInt32(lcpFile, 44) = 11
    /\ ReadInt32(lcpFile, 48) = 14
    /\ ReadInt32(lcpFile, 52) = -1
    /\ Overlapping(lcpFile, 56, 400) = {}
    /\ ccTells[1] = 4164
====
